---------------------------- MODULE Spec2Model ----------------------------
(***************************************************************************)
(* A model of the PALAPA data preparation scripts:                         *)
(*   dataset-wisata/merge_datasets.py   (SpecMerge)                        *)
(*   scripts/import-data.py, import-data-optimized.py,                     *)
(*   import-data-parallel.py, setup-firebase-data.py,                      *)
(*   import-umkm-data.py                (SpecImport)                       *)
(* Text is a sequence of one-character strings.  Coordinates are integers  *)
(* in units of 1e-7 degree, so that rounding to 3 and to 6 decimals both   *)
(* change values.  An embedding vector is a record naming its dimension,   *)
(* the text it was computed for (0 for the all-zero vector) and whether    *)
(* faiss.normalize_L2 was applied to it.                                   *)
(***************************************************************************)
EXTENDS Integers, Sequences, FiniteSets, TLC

VARIABLES
    \* ---- merge_datasets.py ----
    df1, df2, df3,      \* the three source tables as read (name, Lat, Long)
    df_combined,        \* the working DataFrame
    saved,              \* the rows written to OUTPUT_FILE
    mpc,                \* position in the script
    call,               \* the text helper being applied: [fn, args]
    ret,                \* what it returned, as a tuple; <<>> before the return
    \* ---- import scripts ----
    script,             \* which script runs
    csv_columns,        \* column names of the input table
    query,              \* text handed to search_faiss
    cpu,                \* multiprocessing.cpu_count()
    destinations,       \* list of destination dicts
    pc,                 \* position in the run
    tasks,              \* executor futures of the embedding fan-out
    embeddings,         \* result slots / array of the embedding stage
    store,              \* documents committed to Firestore
    next_id,            \* ids already handed out by collection.document()
    document_ids,       \* import-data.py: ids returned by import_to_firestore
    batch,              \* pending writes of the current WriteBatch
    cursor,             \* loop position (row / chunk start / item), 0-based
    commit_log,         \* every batch handed to commit, with its outcome
    counter,            \* success_count / total_imported / total_uploaded / batch_num
    batch_count,        \* setup-firebase-data.py: batch_count
    faiss_index,        \* vectors in the index, position-addressed
    index_mapping,      \* self.index_mapping
    emb_calls,          \* embed_content calls of the current single-item request
    search_out,         \* [limit, indices, results] of the last search_faiss
    exit_code           \* -1 while running, else the process exit code

mvars == <<df1, df2, df3, df_combined, saved, mpc, call, ret>>
ivars == <<script, csv_columns, query, cpu, destinations, pc, tasks, embeddings, store, next_id,
           document_ids, batch, cursor, commit_log, counter, batch_count,
           faiss_index, index_mapping, emb_calls, search_out, exit_code>>
vars == <<mvars, ivars>>

(***************************************************************************)
(* Bounds of the model                                                     *)
(***************************************************************************)
MaxRows == 2        \* rows over the three merge sources together
MaxDest == 3        \* destinations / UMKM entries of one import run
MaxChunk == 2       \* records per Firestore batch (scaled down)
MaxCpu == 2         \* CPU count of the host
MaxLimit == 3       \* largest search limit
MaxText == 5            \* characters in a text cell
MaxPad == 1             \* blanks around a province cell
MaxParts == 3           \* comma-separated parts of an address

Min(a, b) == IF a < b THEN a ELSE b
Range(s) == {s[i] : i \in 1..Len(s)}

RECURSIVE SelectIdx(_, _, _)
\* the subsequence of s at the positions i (ascending) with keep[i]
SelectIdx(s, keep, i) ==
    IF i > Len(s) THEN <<>>
    ELSE (IF keep[i] THEN <<s[i]>> ELSE <<>>) \o SelectIdx(s, keep, i + 1)

(***************************************************************************)
(* merge_datasets.py                                                       *)
(***************************************************************************)
NaN == -2000000000                  \* pd.to_numeric(..., errors='coerce')
Unit == 10000000                    \* one degree
LAT_MIN == -11 * Unit
LAT_MAX == 6 * Unit
LNG_MIN == 95 * Unit
LNG_MAX == 141 * Unit

isna(x) == x = NaN
notna(x) == x # NaN

\* Series.round(d): nearest multiple of m = 10^(7-d) units, ties to even
RoundTo(x, m) ==
    IF isna(x) THEN NaN
    ELSE LET q == x \div m
             r == x % m
         IN  IF 2 * r < m THEN q * m
             ELSE IF 2 * r > m THEN (q + 1) * m
             ELSE IF q % 2 = 0 THEN q * m ELSE (q + 1) * m
round3(x) == RoundTo(x, 10000)
round6(x) == RoundTo(x, 10)

IsSpace(c) == c \in {" ", "\t", "\n", "\r"}
UpperLetters == <<"A", "B", "C", "D", "E", "F", "G", "H", "I", "J", "K", "L", "M",
                  "N", "O", "P", "Q", "R", "S", "T", "U", "V", "W", "X", "Y", "Z">>
LowerLetters == <<"a", "b", "c", "d", "e", "f", "g", "h", "i", "j", "k", "l", "m",
                  "n", "o", "p", "q", "r", "s", "t", "u", "v", "w", "x", "y", "z">>
lower_char(c) ==
    IF \E i \in 1..26 : UpperLetters[i] = c
    THEN LowerLetters[CHOOSE i \in 1..26 : UpperLetters[i] = c]
    ELSE c
str_lower(s) == [i \in 1..Len(s) |-> lower_char(s[i])]
RECURSIVE lstrip(_)
lstrip(s) == IF s # <<>> /\ IsSpace(Head(s)) THEN lstrip(Tail(s)) ELSE s
RECURSIVE rstrip(_)
rstrip(s) == IF s # <<>> /\ IsSpace(s[Len(s)])
             THEN rstrip(SubSeq(s, 1, Len(s) - 1)) ELSE s
str_strip(s) == rstrip(lstrip(s))

\* Series.between(lo, hi): inclusive on both sides, False for NaN
BetweenExclusive(x, lo, hi) == notna(x) /\ lo < x /\ x < hi
between(x, lo, hi) == notna(x) /\ lo <= x /\ x <= hi

\* the rows of a source table; one more row has a name that differs from
\* another name only by a character the name cleaning removes
RawRows ==
    [name : { <<"A">>, <<"a", " ">> }, Lat : { NaN, -110000004, 59999996, 60000000, 60000004 }, Long : { NaN, 950000000, 1410000004 }]
    \cup {[name |-> <<"a", "#">>, Lat |-> 60000000, Long |-> 950000000]}

\* lines 29-79: the per-source mapping into the common schema
normalized(df, tag) ==
    [i \in 1..Len(df) |->
        [name |-> df[i].name, latitude |-> df[i].Lat,
         longitude |-> df[i].Long, source |-> tag]]

\* line 83: pd.concat(..., ignore_index=True); index is the new row label
concat(a, b, c) ==
    LET all == a \o b \o c
    IN  [i \in 1..Len(all) |->
            [index |-> i - 1, name |-> all[i].name,
             latitude |-> all[i].latitude, longitude |-> all[i].longitude,
             source |-> all[i].source]]

\* lines 88-90
with_key_columns(df) ==
    [i \in 1..Len(df) |->
        [index |-> df[i].index, name |-> df[i].name,
         latitude |-> df[i].latitude, longitude |-> df[i].longitude,
         source |-> df[i].source,
         name_lower |-> str_strip(str_lower(df[i].name)),
         lat_round |-> round3(df[i].latitude),
         lng_round |-> round3(df[i].longitude)]]

\* lines 93-98
NoCoordFilter(df) == df
ExclusiveCoordMask(row) ==
    /\ notna(row.latitude) /\ notna(row.longitude)
    /\ BetweenExclusive(row.latitude, LAT_MIN, LAT_MAX)
    /\ BetweenExclusive(row.longitude, LNG_MIN, LNG_MAX)
coord_mask(row) ==
    /\ notna(row.latitude) /\ notna(row.longitude)
    /\ between(row.latitude, LAT_MIN, LAT_MAX)
    /\ between(row.longitude, LNG_MIN, LNG_MAX)
coord_filter(df) ==
    SelectIdx(df, [i \in 1..Len(df) |-> coord_mask(df[i])], 1)

\* lines 101-104
subset_key(row) == <<row.name_lower, row.lat_round, row.lng_round>>
KeepLast(df, i) ==
    \A j \in (i + 1)..Len(df) : subset_key(df[j]) # subset_key(df[i])
keep_first(df, i) ==
    \A j \in 1..(i - 1) : subset_key(df[j]) # subset_key(df[i])
drop_duplicates(df) ==
    SelectIdx(df, [i \in 1..Len(df) |-> keep_first(df, i)], 1)

\* line 107
drop_helper_columns(df) ==
    [i \in 1..Len(df) |->
        [index |-> df[i].index, name |-> df[i].name,
         latitude |-> df[i].latitude, longitude |-> df[i].longitude]]

\* lines 365-374: both masks are computed before either is applied
\* (a comparison with NaN is False)
ValidateExclusive(df) ==
    SelectIdx(df, [i \in 1..Len(df) |-> ExclusiveCoordMask(df[i])], 1)
invalid_lat(row) ==
    notna(row.latitude) /\ (row.latitude < LAT_MIN \/ row.latitude > LAT_MAX)
invalid_lng(row) ==
    notna(row.longitude) /\ (row.longitude < LNG_MIN \/ row.longitude > LNG_MAX)
validate_lat_long(df) ==
    LET bad_lat == {df[i].index : i \in {k \in 1..Len(df) : invalid_lat(df[k])}}
        bad_lng == {df[i].index : i \in {k \in 1..Len(df) : invalid_lng(df[k])}}
        step1 == IF bad_lat # {}
                 THEN SelectIdx(df, [i \in 1..Len(df) |-> df[i].index \notin bad_lat], 1)
                 ELSE df
    IN  IF bad_lng # {}
        THEN SelectIdx(step1, [i \in 1..Len(step1) |-> step1[i].index \notin bad_lng], 1)
        ELSE step1

\* lines 377-378
round_lat_long(df) ==
    [i \in 1..Len(df) |->
        [df[i] EXCEPT !.latitude = round6(@), !.longitude = round6(@)]]

ImportIdle ==
    /\ script = "none" /\ csv_columns = {} /\ query = <<>> /\ cpu = 0 /\ destinations = <<>> /\ pc = "off"
    /\ tasks = <<>> /\ embeddings = <<>> /\ store = {} /\ next_id = 0
    /\ document_ids = <<>> /\ batch = <<>> /\ cursor = 0 /\ commit_log = <<>>
    /\ counter = 0 /\ batch_count = 0 /\ faiss_index = <<>>
    /\ index_mapping = <<>> /\ emb_calls = <<>>
    /\ search_out = [limit |-> 0, indices |-> <<>>, results |-> <<>>]
    /\ exit_code = -1

NoCall == [fn |-> "none", args |-> <<>>]

MergeIdle ==
    /\ df1 = <<>> /\ df2 = <<>> /\ df3 = <<>>
    /\ df_combined = <<>> /\ saved = <<>> /\ mpc = "off"
    /\ call = NoCall /\ ret = <<>>

SeqsUpTo(S, n) == UNION {[1..k -> S] : k \in 0..n}

MergeInit ==
    /\ ImportIdle
    /\ df1 \in SeqsUpTo(RawRows, MaxRows)
    /\ df2 \in SeqsUpTo(RawRows, MaxRows - Len(df1))
    /\ df3 \in SeqsUpTo(RawRows, MaxRows - Len(df1) - Len(df2))
    /\ df_combined = <<>>
    /\ saved = <<>>
    /\ mpc = "combine"
    /\ call = NoCall /\ ret = <<>>

Combine ==
    /\ mpc = "combine"
    /\ df_combined' = concat(normalized(df1, 1), normalized(df2, 2), normalized(df3, 3))
    /\ mpc' = "keys"
    /\ UNCHANGED <<df1, df2, df3, saved, call, ret, ivars>>

KeyColumns ==
    /\ mpc = "keys"
    /\ df_combined' = with_key_columns(df_combined)
    /\ mpc' = "filter"
    /\ UNCHANGED <<df1, df2, df3, saved, call, ret, ivars>>

CoordFilter ==
    /\ mpc = "filter"
    /\ df_combined' = coord_filter(df_combined)
    /\ mpc' = "dedup"
    /\ UNCHANGED <<df1, df2, df3, saved, call, ret, ivars>>

DropDuplicates ==
    /\ mpc = "dedup"
    /\ df_combined' = drop_helper_columns(drop_duplicates(df_combined))
    /\ mpc' = "clean"
    /\ UNCHANGED <<df1, df2, df3, saved, call, ret, ivars>>

ValidateLatLong ==
    /\ mpc = "validate"
    /\ df_combined' = round_lat_long(validate_lat_long(df_combined))
    /\ mpc' = "save"
    /\ UNCHANGED <<df1, df2, df3, saved, call, ret, ivars>>

SaveCsv ==
    /\ mpc = "save"
    /\ saved' = df_combined
    /\ mpc' = "done"
    /\ UNCHANGED <<df1, df2, df3, df_combined, call, ret, ivars>>


(***************************************************************************)
(* The import scripts                                                      *)
(***************************************************************************)
IMPORT_DATA == "import-data.py"
OPTIMIZED == "import-data-optimized.py"
PARALLEL == "import-data-parallel.py"
SETUP == "setup-firebase-data.py"
UMKM == "import-umkm-data.py"

EMBEDDING_DIMENSION == 768

NoneVec == [dim |-> 0, of |-> 0, norm |-> FALSE]         \* None / no 'embedding' key
ZeroVector == [dim |-> EMBEDDING_DIMENSION, of |-> 0, norm |-> FALSE]
\* what embed_content returns for a text
ServiceVector(text) == [dim |-> EMBEDDING_DIMENSION, of |-> text, norm |-> FALSE]
normalize_L2(v) == [v EXCEPT !.norm = TRUE]

\* chunk sizes: BATCH_SIZE = 100, batch_size = 50, "every 500 documents",
\* batch_size=10; all scaled to MaxChunk
ChunkSize(s) == MaxChunk

\* import-data.py:160 / import-data-parallel.py:35
PoolSize(s, n) == IF s = PARALLEL THEN Min(4, n - 1) ELSE Min(n, 10)

\* load_csv_data, import-data.py:101-114: the accepted spellings of each column
column_mapping ==
    [Place_Name |-> <<"name", "Place_Name", "place_name", "nama", "Name", "nama_tempat">>,
     Latitude |-> <<"latitude", "Latitude", "lat", "Lat", "koordinat_lat">>,
     Longitude |-> <<"longitude", "Longitude", "lng", "lon", "Long", "koordinat_lng">>,
     Description |-> <<"description", "Description", "deskripsi", "detail">>,
     Category |-> <<"category", "Category", "kategori", "jenis">>,
     Price |-> <<"priceRange", "Price", "price", "harga", "biaya">>,
     Rating |-> <<"rating", "Rating", "nilai">>,
     Time_Minutes |-> <<"timeMinutes", "Time_Minutes", "time_minutes", "durasi", "waktu">>,
     Address |-> <<"address", "Address", "alamat", "lokasi">>,
     City |-> <<"kotaKabupaten", "City", "city", "kota", "kabupaten">>,
     Provinsi |-> <<"provinsi", "Provinsi", "province">>]
\* line 125: the columns whose absence raises
NoRequiredColumns == {}
RequiredColumns == {"Place_Name", "Latitude", "Longitude", "Description"}
\* lines 119-123: the first spelling present in df.columns, "" for None
found_column(possible_names, columns) ==
    LET hits == {i \in 1..Len(possible_names) : possible_names[i] \in columns}
    IN  IF hits = {} THEN ""
        ELSE possible_names[CHOOSE i \in hits : \A j \in hits : i <= j]
\* lines 117-126: the loop raises ValueError
missing_required(columns, required) ==
    \E c \in required : found_column(column_mapping[c], columns) = ""
actual_columns(columns) ==
    [c \in {k \in DOMAIN column_mapping :
               found_column(column_mapping[k], columns) # ""}
        |-> found_column(column_mapping[c], columns)]
\* line 131: df.rename(columns=actual_columns) renames the columns that are
\* KEYS of actual_columns to the spelling that was found
renamed_columns(columns) ==
    LET m == actual_columns(columns)
    IN  {IF c \in DOMAIN m THEN m[c] ELSE c : c \in columns}

\* column sets of the input table
MergedColumns == {"name", "latitude", "longitude", "description", "category", "provinsi"}
LegacyColumns == {"Place_Name", "Lat", "Long", "Description", "Category"}
ColumnSets(s) ==
    IF s = IMPORT_DATA
    THEN {MergedColumns, LegacyColumns}
         \cup {MergedColumns \ {c} : c \in {"name", "latitude", "longitude", "description"}}
    ELSE {MergedColumns}

\* texts handed to search_faiss; run_import's own test call uses "candi buddha"
Queries == {<<>>, <<" ">>, <<"c">>}
\* descriptionClean of a destination, stripped by process_destinations
\* (import-data-optimized.py:134) and normalize_destination (parallel:110)
Descriptions(s) == IF s \in {OPTIMIZED, PARALLEL} THEN {<<>>, <<"d">>} ELSE {<<"d">>}

\* the guard in front of the embed_content call: import-data.py:138 has none,
\* import-data-optimized.py:95 "not text or pd.isna(text)",
\* import-data-parallel.py:147 "not text or not str(text).strip()"
skips_service(s, text) ==
    CASE s = OPTIMIZED -> text = <<>>
      [] s = PARALLEL -> text = <<>> \/ str_strip(text) = <<>>
      [] OTHER -> FALSE

N == Len(destinations)
\* the text whose embedding is requested for destination i (1-based)
Text(i) == destinations[i].name

Doc(id, dest) == [id |-> id, name |-> dest.name, embedding |-> dest.embedding]

\* slice destinations[i : i + size] for a 0-based start i
Slice(s, i, size) == SubSeq(s, i + 1, Min(i + size, Len(s)))
\* the documents of batch.set for the slice, with fresh auto ids
BatchDocs(items, first_id) ==
    [j \in 1..Len(items) |-> Doc(first_id + j, items[j])]

\* a submitted work item; `none` marks an item of the text list that is None
QueuedTask == [st |-> "queued", calls |-> <<>>, result |-> NoneVec, none |-> FALSE]

ImportInit ==
    /\ MergeIdle
    /\ script \in {IMPORT_DATA, OPTIMIZED, PARALLEL, SETUP, UMKM}
    /\ csv_columns \in ColumnSets(script)
    /\ query = <<>>
    /\ cpu \in 1..MaxCpu
    /\ \E n \in 0..MaxDest :
         destinations \in
            [1..n -> [name : 1..MaxDest,
                      descriptionClean : Descriptions(script),
                      provinsi : IF script = SETUP THEN {"", "Bali"} ELSE {"Bali"},
                      read : {{}},
                      embedding : {NoneVec}]]
    /\ \A i \in 1..Len(destinations) : destinations[i].name = i
    /\ pc = "start"
    /\ tasks = <<>> /\ embeddings = <<>> /\ store = {} /\ next_id = 0
    /\ document_ids = <<>> /\ batch = <<>> /\ cursor = 0 /\ commit_log = <<>>
    /\ counter = 0 /\ batch_count = 0 /\ faiss_index = <<>>
    /\ index_mapping = <<>> /\ emb_calls = <<>>
    /\ search_out = [limit |-> 0, indices |-> <<>>, results |-> <<>>]
    /\ exit_code = -1

\* except Exception in run / run_import: print, sys.exit(1)
Fatal == pc' = "fatal" /\ exit_code' = 1

(***************************************************************************)
(* import-data.py                                                          *)
(***************************************************************************)
\* generate_embedding, lines 138-155: the attempt that just failed was the
\* last one
RetriesExhaustedLate(attempt) == ~(attempt < 4)
retries_exhausted(attempt) == ~(attempt < 3)

\* one embed_content call of a single-item request whose earlier calls are
\* `calls`; ok is the service's answer.  Returns the request's new state.
embedding_attempt(calls, text, ok) ==
    LET attempt == Len(calls) + 1
        now == Append(calls, ok)
    IN  IF ok THEN [calls |-> now, returned |-> TRUE, value |-> ServiceVector(text)]
        ELSE IF retries_exhausted(attempt)
             THEN [calls |-> now, returned |-> TRUE, value |-> ZeroVector]
             ELSE [calls |-> now, returned |-> FALSE, value |-> NoneVec]

\* what leaves _worker: the raise of a worker is kept in its future
RaisedVec == [dim |-> -1, of |-> 0, norm |-> FALSE]
\* generate_embedding for an item of the list: for None the except handler's
\* text[:50] (line 149) raises out of the function
worker_outcome(none, calls, text, ok) ==
    IF none /\ ~ok
    THEN [calls |-> Append(calls, ok), returned |-> TRUE, value |-> RaisedVec]
    ELSE embedding_attempt(calls, text, ok)

Running == {i \in 1..Len(tasks) : tasks[i].st = "running"}
Queued == {i \in 1..Len(tasks) : tasks[i].st = "queued"}
Finished == {i \in 1..Len(tasks) : tasks[i].st = "finished"}
Collected == {i \in 1..Len(tasks) : tasks[i].st = "collected"}
FirstOf(S) == CHOOSE i \in S : \A j \in S : i <= j

\* load_csv_data, lines 86-134, called first by run_import: raises when a
\* required column has none of its spellings, else renames the columns
LoadCsvData ==
    /\ script = IMPORT_DATA /\ pc = "start"
    /\ IF missing_required(csv_columns, RequiredColumns)
       THEN /\ Fatal
            /\ UNCHANGED csv_columns
       ELSE /\ csv_columns' = renamed_columns(csv_columns)
            /\ pc' = "loaded"
            /\ UNCHANGED exit_code
    /\ UNCHANGED <<mvars, script, query, cpu, destinations, tasks, embeddings, store,
                   next_id, document_ids, batch, cursor, commit_log, counter,
                   batch_count, faiss_index, index_mapping, emb_calls, search_out>>

\* the keys under which row.get finds the row's value instead of the default
columns_read(columns) == {k \in {"Place_Name", "Latitude", "Longitude", "Description"} : k \in columns}

\* run_import from the normalisation loop to generate_embeddings_batch's
\* executor.submit of every text (lines 157-169)
SubmitBatch ==
    /\ script = IMPORT_DATA /\ pc = "loaded"
    /\ destinations' = [i \in 1..N |->
                           [destinations[i] EXCEPT !.read = columns_read(csv_columns)]]
    /\ \E missing \in 0..N :
         tasks' = [i \in 1..N |-> [QueuedTask EXCEPT !.none = (i = missing)]]
    /\ embeddings' = [i \in 1..N |-> NoneVec]
    /\ pc' = "embed"
    /\ UNCHANGED <<mvars, script, csv_columns, query, cpu, store, next_id, document_ids,
                   batch, cursor, commit_log, counter, batch_count, faiss_index,
                   index_mapping, emb_calls, search_out, exit_code>>

\* a free pool thread takes the oldest queued work item
StartWorker ==
    /\ script = IMPORT_DATA /\ pc = "embed"
    /\ Queued # {}
    /\ Cardinality(Running) < PoolSize(script, cpu)
    /\ tasks' = [tasks EXCEPT ![FirstOf(Queued)].st = "running"]
    /\ UNCHANGED <<mvars, script, csv_columns, query, cpu, destinations, pc, embeddings, store, next_id,
                   document_ids, batch, cursor, commit_log, counter, batch_count,
                   faiss_index, index_mapping, emb_calls, search_out, exit_code>>

\* one iteration of generate_embedding's loop inside a worker
WorkerAttempt ==
    /\ script = IMPORT_DATA /\ pc = "embed"
    /\ \E i \in Running : \E ok \in BOOLEAN :
         LET r == worker_outcome(tasks[i].none, tasks[i].calls, Text(i), ok)
         IN  tasks' = [tasks EXCEPT ![i] =
                          [st |-> IF r.returned THEN "finished" ELSE "running",
                           calls |-> r.calls, result |-> r.value,
                           none |-> tasks[i].none]]
    /\ UNCHANGED <<mvars, script, csv_columns, query, cpu, destinations, pc, embeddings, store, next_id,
                   document_ids, batch, cursor, commit_log, counter, batch_count,
                   faiss_index, index_mapping, emb_calls, search_out, exit_code>>

\* lines 171-178: the slot written for the future `idx` that as_completed yields as
\* the (done + 1)-th
SlotByCompletion(idx, done) == done + 1
result_slot(idx, done) == idx
\* lines 173-177: fut.result() re-raises the worker's exception and the except
\* branch writes the zero vector
SlotValueUnguarded(result) == result
slot_value(result) == IF result = RaisedVec THEN ZeroVector ELSE result

CollectResult ==
    /\ script = IMPORT_DATA /\ pc = "embed"
    /\ \E i \in Finished :
         /\ embeddings' = [embeddings EXCEPT
                              ![result_slot(i, Cardinality(Collected))] =
                                 slot_value(tasks[i].result)]
         /\ tasks' = [tasks EXCEPT ![i].st = "collected"]
    /\ UNCHANGED <<mvars, script, csv_columns, query, cpu, destinations, pc, store, next_id,
                   document_ids, batch, cursor, commit_log, counter, batch_count,
                   faiss_index, index_mapping, emb_calls, search_out, exit_code>>

\* lines 180-185 and 438-442: fill None slots, return, attach to the destinations
ReturnBatch ==
    /\ script = IMPORT_DATA /\ pc = "embed"
    /\ Collected = 1..Len(tasks)
    /\ embeddings' = [i \in 1..Len(embeddings) |->
                         IF embeddings[i] = NoneVec THEN ZeroVector ELSE embeddings[i]]
    /\ destinations' = [i \in 1..N |->
                           [destinations[i] EXCEPT !.embedding = embeddings'[i]]]
    /\ tasks' = <<>>          \* the executor is shut down
    /\ cursor' = 0
    /\ pc' = IF N = 0 THEN "build" ELSE "upload"
    /\ UNCHANGED <<mvars, script, csv_columns, query, cpu, store, next_id, document_ids, batch,
                   commit_log, counter, batch_count, faiss_index, index_mapping,
                   emb_calls, search_out, exit_code>>

\* lines 446-456: one iteration of the upload loop
UploadDocument ==
    /\ script = IMPORT_DATA /\ pc = "upload"
    /\ cursor < N
    /\ next_id' = next_id + 1
    /\ \E ok \in BOOLEAN :
         IF ok
         THEN /\ store' = store \cup {Doc(next_id + 1, destinations[cursor + 1])}
              /\ document_ids' = Append(document_ids, next_id + 1)
         ELSE UNCHANGED <<store, document_ids>>
    /\ cursor' = cursor + 1
    /\ pc' = IF cursor + 1 = N THEN "build" ELSE "upload"
    /\ UNCHANGED <<mvars, script, csv_columns, query, cpu, destinations, tasks, embeddings, batch,
                   commit_log, counter, batch_count, faiss_index, index_mapping,
                   emb_calls, search_out, exit_code>>

\* lines 468-477: zip(destinations, document_ids), keep non-empty embeddings
zip_pairs(dests, ids) ==
    LET n == Min(Len(dests), Len(ids))
        pairs == [i \in 1..n |-> [dest |-> dests[i], doc_id |-> ids[i]]]
    IN  SelectIdx(pairs, [i \in 1..n |-> pairs[i].dest.embedding.dim > 0], 1)

MappingEntry(id, dest) == [id |-> id, name |-> dest.name]

\* build_faiss_index, lines 461-491
BuildFaissIndex ==
    /\ script = IMPORT_DATA /\ pc = "build"
    /\ LET pairs == zip_pairs(destinations, document_ids)
       IN  /\ index_mapping' =
                 [i \in 1..Len(pairs) |-> MappingEntry(pairs[i].doc_id, pairs[i].dest)]
           /\ IF pairs = <<>>
              THEN /\ Fatal
                   /\ UNCHANGED faiss_index
              ELSE /\ faiss_index' = faiss_index \o
                        [i \in 1..Len(pairs) |-> normalize_L2(pairs[i].dest.embedding)]
                   /\ pc' = "save"
                   /\ UNCHANGED exit_code
    /\ UNCHANGED <<mvars, script, csv_columns, query, cpu, destinations, tasks, embeddings, store, next_id,
                   document_ids, batch, cursor, commit_log, counter, batch_count,
                   emb_calls, search_out>>

\* save_faiss_index (493-508 and the variants'): index and mapping go to disk
SaveFaissIndex ==
    /\ script \in {IMPORT_DATA, OPTIMIZED, PARALLEL} /\ pc = "save"
    /\ IF script = IMPORT_DATA
       THEN \* search_faiss is called with a query text
            /\ \E q \in Queries : query' = q
            /\ pc' = "query" /\ UNCHANGED exit_code
       ELSE pc' = "done" /\ exit_code' = 0 /\ UNCHANGED query
    /\ UNCHANGED <<mvars, script, csv_columns, cpu, destinations, tasks, embeddings, store, next_id,
                   document_ids, batch, cursor, commit_log, counter, batch_count,
                   faiss_index, index_mapping, emb_calls, search_out>>

\* search_faiss line 513: the query's embedding, one embed_content call
QueryEmbedding ==
    /\ script = IMPORT_DATA /\ pc = "query"
    /\ \E ok \in BOOLEAN :
         LET r == embedding_attempt(emb_calls, MaxDest + 1, ok)
         IN  /\ emb_calls' = r.calls
             /\ pc' = IF r.returned THEN "search" ELSE "query"
    /\ UNCHANGED <<mvars, script, csv_columns, query, cpu, destinations, tasks, embeddings, store, next_id,
                   document_ids, batch, cursor, commit_log, counter, batch_count,
                   faiss_index, index_mapping, search_out, exit_code>>

\* IndexFlatIP.search: `limit` labels, the best min(limit, ntotal) positions
\* (0-based, distinct) followed by -1 for the missing neighbours
SearchAnswers(ntotal, limit) ==
    LET m == Min(limit, ntotal)
    IN  {idx \in [1..limit -> -1..(ntotal - 1)] :
            /\ \A i \in 1..m : idx[i] >= 0
            /\ \A i \in 1..m : \A j \in 1..m : i # j => idx[i] # idx[j]
            /\ \A i \in (m + 1)..limit : idx[i] = -1}

\* lines 523: the guard in front of self.index_mapping[idx]
in_range(idx, len) == idx < len
\* Python list indexing: a negative index counts from the end
py_item(list, idx) == IF idx >= 0 THEN list[idx + 1] ELSE list[Len(list) + idx + 1]
py_index_ok(list, idx) == -Len(list) <= idx /\ idx < Len(list)

RECURSIVE search_results(_, _, _)
search_results(indices, mapping, i) ==
    IF i > Len(indices) THEN <<>>
    ELSE (IF in_range(indices[i], Len(mapping))
          THEN <<py_item(mapping, indices[i])>> ELSE <<>>)
         \o search_results(indices, mapping, i + 1)

\* search_faiss, lines 510-528 (the definition in effect), called by run_import
SearchFaiss ==
    /\ script = IMPORT_DATA /\ pc = "search"
    /\ \E limit \in 1..MaxLimit : \E indices \in SearchAnswers(Len(faiss_index), limit) :
         IF \A i \in 1..limit :
                in_range(indices[i], Len(index_mapping))
                    => py_index_ok(index_mapping, indices[i])
         THEN /\ search_out' = [limit |-> limit, indices |-> indices,
                                results |-> search_results(indices, index_mapping, 1)]
              /\ pc' = "done" /\ exit_code' = 0
         ELSE /\ Fatal
              /\ UNCHANGED search_out
    /\ UNCHANGED <<mvars, script, csv_columns, query, cpu, destinations, tasks, embeddings, store, next_id,
                   document_ids, batch, cursor, commit_log, counter, batch_count,
                   faiss_index, index_mapping, emb_calls>>

(***************************************************************************)
(* import-data-optimized.py and import-data-parallel.py                    *)
(***************************************************************************)
\* load_csv / load_umkm_data / pd.read_csv and the row normalisation in front
\* of the first loop of the sequential scripts
LoadData ==
    /\ script \in {OPTIMIZED, SETUP, UMKM} /\ pc = "start"
    /\ cursor' = 0
    /\ pc' = CASE script = OPTIMIZED -> (IF N = 0 THEN "build" ELSE "upload")
               [] script = SETUP -> (IF N = 0 THEN "final" ELSE "rows")
               [] script = UMKM -> (IF N = 0 THEN "verify" ELSE "prepare")
    /\ UNCHANGED <<mvars, script, csv_columns, query, cpu, destinations, tasks, embeddings, store, next_id,
                   document_ids, batch, commit_log, counter, batch_count, faiss_index,
                   index_mapping, emb_calls, search_out, exit_code>>

\* the slice of one loop iteration: range(0, len, size), items[i:i+size]
OverlappingChunk(items, i, size) == Slice(items, i, size + 1)
chunk_at(items, i, size) == Slice(items, i, size)

\* upload_to_firestore, import-data-optimized.py:152-173, one iteration;
\* batch.commit() is not guarded: a raise leaves through run's except
UploadChunkOptimized ==
    /\ script = OPTIMIZED /\ pc = "upload"
    /\ cursor < N
    /\ LET items == chunk_at(destinations, cursor, ChunkSize(script))
           docs == BatchDocs(items, next_id)
       IN  /\ next_id' = next_id + Len(items)
           /\ \E ok \in BOOLEAN :
                /\ commit_log' = Append(commit_log, [writes |-> docs, ok |-> ok])
                /\ IF ok
                   THEN /\ store' = store \cup Range(docs)
                        /\ counter' = counter + 1
                        /\ IF cursor + ChunkSize(script) >= N
                           THEN cursor' = 0 /\ pc' = "build"
                           ELSE cursor' = cursor + ChunkSize(script) /\ pc' = "upload"
                        /\ UNCHANGED exit_code
                   ELSE /\ Fatal
                        /\ UNCHANGED <<store, counter, cursor>>
    /\ UNCHANGED <<mvars, script, csv_columns, query, cpu, destinations, tasks, embeddings, document_ids,
                   batch, batch_count, faiss_index, index_mapping, emb_calls,
                   search_out>>

\* the index_mapping entries of one embedding batch starting at 0-based i
batch_entries(items, i) ==
    [j \in 1..Len(items) |-> [id |-> i + j - 1, name |-> items[j].name]]

\* build_faiss_index, import-data-optimized.py:186-206: what the try block
\* leaves in index_mapping; ok = generate_embeddings_batch returned
MappingBeforeEmbedding(mapping, items, i, ok) == mapping \o batch_entries(items, i)
mapping_after_batch(mapping, items, i, ok) ==
    IF ok THEN mapping \o batch_entries(items, i) ELSE mapping

\* one iteration of the embedding loop, lines 182-206
BuildBatchOptimized ==
    /\ script = OPTIMIZED /\ pc = "build"
    /\ cursor < N
    /\ LET items == chunk_at(destinations, cursor, ChunkSize(script))
           called == {j \in 1..Len(items) :
                        ~skips_service(script, items[j].descriptionClean)}
       IN  \E ok \in (IF called = {} THEN {TRUE} ELSE BOOLEAN) :
             /\ embeddings' =
                  IF ok THEN embeddings \o
                             [j \in 1..Len(items) |->
                                 IF j \in called THEN ServiceVector(items[j].name)
                                 ELSE ZeroVector]
                  ELSE embeddings
             /\ index_mapping' = mapping_after_batch(index_mapping, items, cursor, ok)
    /\ cursor' = cursor + ChunkSize(script)
    /\ UNCHANGED <<mvars, script, csv_columns, query, cpu, destinations, pc, tasks, store, next_id,
                   document_ids, batch, commit_log, counter, batch_count, faiss_index,
                   emb_calls, search_out, exit_code>>

\* lines 208-213: np.vstack and faiss_index.add
FinishBuildOptimized ==
    /\ script = OPTIMIZED /\ pc = "build"
    /\ cursor >= N
    /\ faiss_index' = faiss_index \o embeddings
    /\ pc' = "save"
    /\ UNCHANGED <<mvars, script, csv_columns, query, cpu, destinations, tasks, embeddings, store, next_id,
                   document_ids, batch, cursor, commit_log, counter, batch_count,
                   index_mapping, emb_calls, search_out, exit_code>>

\* run, import-data-parallel.py:256-262: thread_map(..., max_workers=NUM_WORKERS)
\* builds ThreadPoolExecutor(NUM_WORKERS), which raises for NUM_WORKERS < 1
SubmitParallel ==
    /\ script = PARALLEL /\ pc = "start"
    /\ IF PoolSize(script, cpu) < 1
       THEN /\ Fatal
            /\ UNCHANGED tasks
       ELSE /\ tasks' = [i \in 1..N |-> QueuedTask]
            /\ pc' = "embed"
            /\ UNCHANGED exit_code
    /\ UNCHANGED <<mvars, script, csv_columns, query, cpu, destinations, embeddings, store, next_id,
                   document_ids, batch, cursor, commit_log, counter, batch_count,
                   faiss_index, index_mapping, emb_calls, search_out>>

StartWorkerParallel ==
    /\ script = PARALLEL /\ pc = "embed"
    /\ Queued # {}
    /\ Cardinality(Running) < PoolSize(script, cpu)
    /\ tasks' = [tasks EXCEPT ![FirstOf(Queued)].st = "running"]
    /\ UNCHANGED <<mvars, script, csv_columns, query, cpu, destinations, pc, embeddings, store, next_id,
                   document_ids, batch, cursor, commit_log, counter, batch_count,
                   faiss_index, index_mapping, emb_calls, search_out, exit_code>>

\* generate_embedding, import-data-parallel.py:144-163: one call, zero vector on
\* any exception
embedding_or_zero(text, ok) == IF ok THEN ServiceVector(text) ELSE ZeroVector

WorkerCallParallel ==
    /\ script = PARALLEL /\ pc = "embed"
    /\ \E i \in Running :
         IF skips_service(script, destinations[i].descriptionClean)
         THEN tasks' = [tasks EXCEPT ![i] =
                          [st |-> "finished", calls |-> <<>>, result |-> ZeroVector,
                           none |-> FALSE]]
         ELSE \E ok \in BOOLEAN :
                tasks' = [tasks EXCEPT ![i] =
                             [st |-> "finished", calls |-> <<ok>>,
                              result |-> embedding_or_zero(Text(i), ok),
                              none |-> FALSE]]
    /\ UNCHANGED <<mvars, script, csv_columns, query, cpu, destinations, pc, embeddings, store, next_id,
                   document_ids, batch, cursor, commit_log, counter, batch_count,
                   faiss_index, index_mapping, emb_calls, search_out, exit_code>>

\* executor.map yields the results in submission order
CollectParallel ==
    /\ script = PARALLEL /\ pc = "embed"
    /\ LET i == Cardinality(Collected) + 1
       IN  /\ i \in Finished
           /\ embeddings' = Append(embeddings, tasks[i].result)
           /\ tasks' = [tasks EXCEPT ![i].st = "collected"]
    /\ UNCHANGED <<mvars, script, csv_columns, query, cpu, destinations, pc, store, next_id,
                   document_ids, batch, cursor, commit_log, counter, batch_count,
                   faiss_index, index_mapping, emb_calls, search_out, exit_code>>

\* generate_embeddings_parallel returns (lines 179-182)
ReturnParallel ==
    /\ script = PARALLEL /\ pc = "embed"
    /\ Collected = 1..Len(tasks)
    /\ tasks' = <<>>          \* the executor is shut down
    /\ cursor' = 0
    /\ pc' = IF N = 0 THEN "build" ELSE "upload"
    /\ UNCHANGED <<mvars, script, csv_columns, query, cpu, destinations, embeddings, store, next_id,
                   document_ids, batch, commit_log, counter, batch_count, faiss_index,
                   index_mapping, emb_calls, search_out, exit_code>>

\* upload_to_firestore, import-data-parallel.py:184-208, one iteration
UploadChunkParallel ==
    /\ script = PARALLEL /\ pc = "upload"
    /\ cursor < N
    /\ LET items == chunk_at(destinations, cursor, ChunkSize(script))
           docs == BatchDocs(items, next_id)
       IN  /\ next_id' = next_id + Len(items)
           /\ \E ok \in BOOLEAN :
                /\ commit_log' = Append(commit_log, [writes |-> docs, ok |-> ok])
                /\ IF ok
                   THEN /\ store' = store \cup Range(docs)
                        /\ counter' = counter + Len(items)
                        /\ IF cursor + ChunkSize(script) >= N
                           THEN cursor' = 0 /\ pc' = "build"
                           ELSE cursor' = cursor + ChunkSize(script) /\ pc' = "upload"
                        /\ UNCHANGED exit_code
                   ELSE /\ Fatal
                        /\ UNCHANGED <<store, counter, cursor>>
    /\ UNCHANGED <<mvars, script, csv_columns, query, cpu, destinations, tasks, embeddings, document_ids,
                   batch, batch_count, faiss_index, index_mapping, emb_calls,
                   search_out>>

\* build_faiss_index, import-data-parallel.py:210-229; faiss_index.add needs a
\* two-dimensional array and raises for the empty one
BuildFaissIndexParallel ==
    /\ script = PARALLEL /\ pc = "build"
    /\ IF embeddings = <<>>
       THEN /\ Fatal
            /\ UNCHANGED <<faiss_index, index_mapping>>
       ELSE /\ faiss_index' = faiss_index \o embeddings
            /\ index_mapping' = index_mapping \o batch_entries(destinations, 0)
            /\ pc' = "save"
            /\ UNCHANGED exit_code
    /\ UNCHANGED <<mvars, script, csv_columns, query, cpu, destinations, tasks, embeddings, store, next_id,
                   document_ids, batch, cursor, commit_log, counter, batch_count,
                   emb_calls, search_out>>

(***************************************************************************)
(* setup-firebase-data.py                                                  *)
(***************************************************************************)
\* WriteBatch.commit: all pending writes reach the store, or it raises and
\* neither the store nor the batch object changes
Committed(st, writes) == st \cup Range(writes)

\* line 106: "Commit every 500 documents"
commit_due(count, size) == count >= size

\* import_destinations, lines 73-113: one iteration of the row loop
ImportRow ==
    /\ script = SETUP /\ pc = "rows"
    /\ cursor < N
    /\ LET row == destinations[cursor + 1]
       IN  IF row.provinsi = ""
           THEN \* line 96: continue
                UNCHANGED <<store, next_id, batch, commit_log, counter, batch_count>>
           ELSE LET doc == Doc(next_id + 1, row)
                    pending == Append(batch, doc)
                IN  /\ next_id' = next_id + 1
                    /\ counter' = counter + 1
                    /\ IF commit_due(batch_count + 1, ChunkSize(script))
                       THEN \E ok \in BOOLEAN :
                              /\ commit_log' = Append(commit_log,
                                                  [writes |-> pending, ok |-> ok])
                              /\ IF ok
                                 THEN /\ store' = Committed(store, pending)
                                      /\ batch' = <<>>
                                      /\ batch_count' = 0
                                 ELSE \* line 111: except, continue
                                      /\ batch' = pending
                                      /\ batch_count' = batch_count + 1
                                      /\ UNCHANGED store
                       ELSE /\ batch' = pending
                            /\ batch_count' = batch_count + 1
                            /\ UNCHANGED <<store, commit_log>>
    /\ cursor' = cursor + 1
    /\ pc' = IF cursor + 1 = N THEN "final" ELSE "rows"
    /\ UNCHANGED <<mvars, script, csv_columns, query, cpu, destinations, tasks, embeddings, document_ids,
                   faiss_index, index_mapping, emb_calls, search_out, exit_code>>

\* lines 115-124 and main: the remaining batch, the report, the exit code
CommitRemaining ==
    /\ script = SETUP /\ pc = "final"
    /\ IF batch_count > 0
       THEN \E ok \in BOOLEAN :
              /\ commit_log' = Append(commit_log, [writes |-> batch, ok |-> ok])
              /\ IF ok
                 THEN /\ store' = Committed(store, batch)
                      /\ pc' = "done" /\ exit_code' = 0
                 ELSE /\ Fatal
                      /\ UNCHANGED store
       ELSE /\ pc' = "done" /\ exit_code' = 0
            /\ UNCHANGED <<store, commit_log>>
    /\ UNCHANGED <<mvars, script, csv_columns, query, cpu, destinations, tasks, embeddings, next_id,
                   document_ids, batch, cursor, counter, batch_count, faiss_index,
                   index_mapping, emb_calls, search_out>>

(***************************************************************************)
(* import-umkm-data.py                                                     *)
(***************************************************************************)
\* lines 103-109: the items of the chunk that 0-based item `done` belongs to
ChunkEnd(done, size, total) == Min((done \div size) * size + size, total)

\* lines 117-126: one item of the current chunk is prepared (its embedding is
\* generated with the zero-vector fallback) and set on the batch
PrepareUmkm ==
    /\ script = UMKM /\ pc = "prepare"
    /\ cursor < N
    /\ \E ok \in BOOLEAN :
         LET umkm == [destinations[cursor + 1] EXCEPT
                         !.embedding = embedding_or_zero(Text(cursor + 1), ok)]
         IN  batch' = Append(batch, Doc(next_id + 1, umkm))
    /\ next_id' = next_id + 1
    /\ cursor' = cursor + 1
    /\ pc' = IF cursor + 1 = ChunkEnd(cursor, ChunkSize(script), N)
             THEN "commit" ELSE "prepare"
    /\ UNCHANGED <<mvars, script, csv_columns, query, cpu, destinations, tasks, embeddings, store,
                   document_ids, commit_log, counter, batch_count, faiss_index,
                   index_mapping, emb_calls, search_out, exit_code>>

\* lines 130-140: total_imported after the commit attempt of batch_docs
CountedBeforeCommit(total, batch_docs, ok) == total + Len(batch_docs)
total_after_commit(total, batch_docs, ok) ==
    IF ok THEN total + Len(batch_docs) ELSE total

CommitUmkm ==
    /\ script = UMKM /\ pc = "commit"
    /\ \E ok \in BOOLEAN :
         /\ commit_log' = Append(commit_log, [writes |-> batch, ok |-> ok])
         /\ store' = IF ok THEN Committed(store, batch) ELSE store
         /\ counter' = total_after_commit(counter, batch, ok)
    /\ batch' = <<>>
    /\ pc' = IF cursor = N THEN "verify" ELSE "prepare"
    /\ UNCHANGED <<mvars, script, csv_columns, query, cpu, destinations, tasks, embeddings, next_id,
                   document_ids, cursor, batch_count, faiss_index, index_mapping,
                   emb_calls, search_out, exit_code>>

\* main, lines 191-200: report total_imported, then verify_import
VerifyUmkm ==
    /\ script = UMKM /\ pc = "verify"
    /\ pc' = "done"
    /\ exit_code' = IF store = {} THEN 1 ELSE 0
    /\ UNCHANGED <<mvars, script, csv_columns, query, cpu, destinations, tasks, embeddings, store, next_id,
                   document_ids, batch, cursor, commit_log, counter, batch_count,
                   faiss_index, index_mapping, emb_calls, search_out>>

(***************************************************************************)
(* merge_datasets.py: the text helpers of the cleaning stage               *)
(***************************************************************************)
\* a missing cell (None / NaN) where a text is expected
NA == <<"<NA>">>
isna_text(x) == x = NA

Digits == {"0", "1", "2", "3", "4", "5", "6", "7", "8", "9"}
\* \w of Python's re: letters, digits and the underscore
IsWord(c) == (\E i \in 1..26 : c = UpperLetters[i] \/ c = LowerLetters[i])
             \/ c \in Digits \/ c = "_"
\* the punctuation kept by the character class of line 124

\* line 120: replace('\n', ' ').replace('\r', ' ').replace('\t', ' ')
replace_breaks(s) ==
    [i \in 1..Len(s) |-> IF s[i] \in {"\n", "\r", "\t"} THEN " " ELSE s[i]]
\* line 122: re.sub(r'\s+', ' ', text)
RECURSIVE collapse_spaces(_)
collapse_spaces(s) ==
    IF s = <<>> THEN <<>>
    ELSE IF IsSpace(Head(s))
         THEN <<" ">> \o collapse_spaces(lstrip(s))
         ELSE <<Head(s)>> \o collapse_spaces(Tail(s))
\* line 124: re.sub(r'[^\w\s.,;:()\-/]', '', text)
remove_special(s) ==
    SelectSeq(s, LAMBDA c : IsWord(c) \/ IsSpace(c) \/ c \in {".", ",", ";", ":", "(", ")", "-", "/"})
\* clean_text, lines 115-127
clean_text(text) ==
    IF isna_text(text) THEN <<>>
    ELSE str_strip(remove_special(collapse_spaces(replace_breaks(text))))

\* provinsi_mapping, lines 230-267, as (key, value) pairs
provinsi_mapping ==
    {
      <<<<"j", "a", "k", "a", "r", "t", "a">>,
        <<"D", "K", "I", " ", "J", "a", "k", "a", "r", "t", "a">>>>,
      <<<<"b", "a", "n", "d", "u", "n", "g">>,
        <<"J", "a", "w", "a", " ", "B", "a", "r", "a", "t">>>>,
      <<<<"y", "o", "g", "y", "a", "k", "a", "r", "t", "a">>,
        <<"D", "a", "e", "r", "a", "h", " ", "I", "s", "t", "i", "m", "e", "w", "a", " ", "Y", "o", "g", "y", "a", "k", "a", "r", "t", "a">>>>,
      <<<<"s", "e", "m", "a", "r", "a", "n", "g">>,
        <<"J", "a", "w", "a", " ", "T", "e", "n", "g", "a", "h">>>>,
      <<<<"s", "u", "r", "a", "b", "a", "y", "a">>,
        <<"J", "a", "w", "a", " ", "T", "i", "m", "u", "r">>>>,
      <<<<"b", "a", "l", "i">>,
        <<"B", "a", "l", "i">>>>,
      <<<<"j", "a", "w", "a", " ", "b", "a", "r", "a", "t">>,
        <<"J", "a", "w", "a", " ", "B", "a", "r", "a", "t">>>>,
      <<<<"j", "a", "w", "a", " ", "t", "e", "n", "g", "a", "h">>,
        <<"J", "a", "w", "a", " ", "T", "e", "n", "g", "a", "h">>>>,
      <<<<"j", "a", "w", "a", " ", "t", "i", "m", "u", "r">>,
        <<"J", "a", "w", "a", " ", "T", "i", "m", "u", "r">>>>,
      <<<<"s", "u", "m", "a", "t", "e", "r", "a", " ", "u", "t", "a", "r", "a">>,
        <<"S", "u", "m", "a", "t", "e", "r", "a", " ", "U", "t", "a", "r", "a">>>>,
      <<<<"s", "u", "m", "a", "t", "e", "r", "a", " ", "s", "e", "l", "a", "t", "a", "n">>,
        <<"S", "u", "m", "a", "t", "e", "r", "a", " ", "S", "e", "l", "a", "t", "a", "n">>>>,
      <<<<"s", "u", "m", "a", "t", "e", "r", "a", " ", "b", "a", "r", "a", "t">>,
        <<"S", "u", "m", "a", "t", "e", "r", "a", " ", "B", "a", "r", "a", "t">>>>,
      <<<<"s", "u", "l", "a", "w", "e", "s", "i", " ", "s", "e", "l", "a", "t", "a", "n">>,
        <<"S", "u", "l", "a", "w", "e", "s", "i", " ", "S", "e", "l", "a", "t", "a", "n">>>>,
      <<<<"s", "u", "l", "a", "w", "e", "s", "i", " ", "u", "t", "a", "r", "a">>,
        <<"S", "u", "l", "a", "w", "e", "s", "i", " ", "U", "t", "a", "r", "a">>>>,
      <<<<"s", "u", "l", "a", "w", "e", "s", "i", " ", "t", "e", "n", "g", "g", "a", "r", "a">>,
        <<"S", "u", "l", "a", "w", "e", "s", "i", " ", "T", "e", "n", "g", "g", "a", "r", "a">>>>,
      <<<<"s", "u", "l", "a", "w", "e", "s", "i", " ", "t", "e", "n", "g", "a", "h">>,
        <<"S", "u", "l", "a", "w", "e", "s", "i", " ", "T", "e", "n", "g", "a", "h">>>>,
      <<<<"s", "u", "l", "a", "w", "e", "s", "i", " ", "b", "a", "r", "a", "t">>,
        <<"S", "u", "l", "a", "w", "e", "s", "i", " ", "B", "a", "r", "a", "t">>>>,
      <<<<"k", "a", "l", "i", "m", "a", "n", "t", "a", "n", " ", "b", "a", "r", "a", "t">>,
        <<"K", "a", "l", "i", "m", "a", "n", "t", "a", "n", " ", "B", "a", "r", "a", "t">>>>,
      <<<<"k", "a", "l", "i", "m", "a", "n", "t", "a", "n", " ", "t", "i", "m", "u", "r">>,
        <<"K", "a", "l", "i", "m", "a", "n", "t", "a", "n", " ", "T", "i", "m", "u", "r">>>>,
      <<<<"k", "a", "l", "i", "m", "a", "n", "t", "a", "n", " ", "s", "e", "l", "a", "t", "a", "n">>,
        <<"K", "a", "l", "i", "m", "a", "n", "t", "a", "n", " ", "S", "e", "l", "a", "t", "a", "n">>>>,
      <<<<"k", "a", "l", "i", "m", "a", "n", "t", "a", "n", " ", "t", "e", "n", "g", "a", "h">>,
        <<"K", "a", "l", "i", "m", "a", "n", "t", "a", "n", " ", "T", "e", "n", "g", "a", "h">>>>,
      <<<<"k", "a", "l", "i", "m", "a", "n", "t", "a", "n", " ", "u", "t", "a", "r", "a">>,
        <<"K", "a", "l", "i", "m", "a", "n", "t", "a", "n", " ", "U", "t", "a", "r", "a">>>>,
      <<<<"n", "u", "s", "a", " ", "t", "e", "n", "g", "g", "a", "r", "a", " ", "b", "a", "r", "a", "t">>,
        <<"N", "u", "s", "a", " ", "T", "e", "n", "g", "g", "a", "r", "a", " ", "B", "a", "r", "a", "t">>>>,
      <<<<"n", "u", "s", "a", " ", "t", "e", "n", "g", "g", "a", "r", "a", " ", "t", "i", "m", "u", "r">>,
        <<"N", "u", "s", "a", " ", "T", "e", "n", "g", "g", "a", "r", "a", " ", "T", "i", "m", "u", "r">>>>,
      <<<<"k", "e", "p", "u", "l", "a", "u", "a", "n", " ", "b", "a", "n", "g", "k", "a", " ", "b", "e", "l", "i", "t", "u", "n", "g">>,
        <<"K", "e", "p", "u", "l", "a", "u", "a", "n", " ", "B", "a", "n", "g", "k", "a", " ", "B", "e", "l", "i", "t", "u", "n", "g">>>>,
      <<<<"p", "a", "p", "u", "a", " ", "b", "a", "r", "a", "t", " ", "d", "a", "y", "a">>,
        <<"P", "a", "p", "u", "a", " ", "B", "a", "r", "a", "t", " ", "D", "a", "y", "a">>>>,
      <<<<"m", "a", "l", "u", "k", "u">>,
        <<"M", "a", "l", "u", "k", "u">>>>,
      <<<<"m", "a", "l", "u", "k", "u", " ", "u", "t", "a", "r", "a">>,
        <<"M", "a", "l", "u", "k", "u", " ", "U", "t", "a", "r", "a">>>>,
      <<<<"a", "c", "e", "h">>,
        <<"A", "c", "e", "h">>>>,
      <<<<"r", "i", "a", "u">>,
        <<"R", "i", "a", "u">>>>,
      <<<<"j", "a", "m", "b", "i">>,
        <<"J", "a", "m", "b", "i">>>>,
      <<<<"l", "a", "m", "p", "u", "n", "g">>,
        <<"L", "a", "m", "p", "u", "n", "g">>>>,
      <<<<"b", "a", "n", "t", "e", "n">>,
        <<"B", "a", "n", "t", "e", "n">>>>,
      <<<<"d", "a", "e", "r", "a", "h", " ", "i", "s", "t", "i", "m", "e", "w", "a", " ", "y", "o", "g", "y", "a", "k", "a", "r", "t", "a">>,
        <<"D", "a", "e", "r", "a", "h", " ", "I", "s", "t", "i", "m", "e", "w", "a", " ", "Y", "o", "g", "y", "a", "k", "a", "r", "t", "a">>>>,
      <<<<"d", "k", "i", " ", "j", "a", "k", "a", "r", "t", "a">>,
        <<"D", "K", "I", " ", "J", "a", "k", "a", "r", "t", "a">>>>,
      <<<<>>,
        <<>>>>
    }
\* provinsi_mapping.get(key, default)
mapping_get(mapping, key, default) ==
    IF \E e \in mapping : e[1] = key
    THEN (CHOOSE e \in mapping : e[1] = key)[2]
    ELSE default
\* normalize_provinsi, lines 269-273
NormalizeProvinsiExactKey(prov) ==
    IF isna_text(prov) \/ prov = <<>> THEN <<>>
    ELSE mapping_get(provinsi_mapping, prov, str_strip(prov))
normalize_provinsi(prov) ==
    IF isna_text(prov) \/ prov = <<>> THEN <<>>
    ELSE mapping_get(provinsi_mapping, str_lower(str_strip(prov)), str_strip(prov))

\* city_candidates, lines 189-194 (the names of city_patterns, lines 165-169)
city_candidates ==
    <<
       <<"J", "a", "k", "a", "r", "t", "a">>,
       <<"B", "a", "n", "d", "u", "n", "g">>,
       <<"S", "u", "r", "a", "b", "a", "y", "a">>,
       <<"Y", "o", "g", "y", "a", "k", "a", "r", "t", "a">>,
       <<"S", "e", "m", "a", "r", "a", "n", "g">>,
       <<"M", "e", "d", "a", "n">>,
       <<"M", "a", "k", "a", "s", "s", "a", "r">>,
       <<"P", "a", "l", "e", "m", "b", "a", "n", "g">>,
       <<"D", "e", "n", "p", "a", "s", "a", "r">>,
       <<"B", "a", "l", "i">>,
       <<"J", "a", "w", "a", " ", "B", "a", "r", "a", "t">>,
       <<"J", "a", "w", "a", " ", "T", "e", "n", "g", "a", "h">>,
       <<"J", "a", "w", "a", " ", "T", "i", "m", "u", "r">>,
       <<"S", "u", "m", "a", "t", "e", "r", "a", " ", "U", "t", "a", "r", "a">>,
       <<"S", "u", "m", "a", "t", "e", "r", "a", " ", "S", "e", "l", "a", "t", "a", "n">>,
       <<"S", "u", "m", "a", "t", "e", "r", "a", " ", "B", "a", "r", "a", "t">>
    >>
\* x in y for two strings
Contains(y, x) ==
    \E i \in 0..(Len(y) - Len(x)) : SubSeq(y, i + 1, i + Len(x)) = x
\* address.split(',')
RECURSIVE split_comma(_)
split_comma(s) ==
    LET commas == {i \in 1..Len(s) : s[i] = ","}
    IN  IF commas = {} THEN <<s>>
        ELSE LET c == CHOOSE i \in commas : \A j \in commas : i <= j
             IN  <<SubSeq(s, 1, c - 1)>> \o split_comma(SubSeq(s, c + 1, Len(s)))
\* ','.join(parts)
RECURSIVE join_comma(_)
join_comma(parts) ==
    IF parts = <<>> THEN <<>>
    ELSE IF Len(parts) = 1 THEN parts[1]
    ELSE parts[1] \o <<",">> \o join_comma(Tail(parts))
\* re.sub(r'[,;]\s*$', '', detail).strip(), lines 203 and 216
strip_trailing_punct(s) ==
    LET t == rstrip(s)
    IN  IF t # <<>> /\ t[Len(t)] \in {",", ";"}
        THEN str_strip(SubSeq(s, 1, Len(t) - 1))
        ELSE str_strip(s)
\* lines 165-173: re.match of the anchored patterns, IGNORECASE
is_bare_city(address) ==
    \E k \in 1..Len(city_candidates) : str_lower(address) = str_lower(city_candidates[k])
\* line 186: a part that is only the country
is_country_token(part) ==
    str_lower(str_strip(part)) \in {<<"i", "n", "d", "o", "n", "e", "s", "i", "a">>, <<"i", "d">>}
\* lines 195-196: the candidates found in a part, by position in city_candidates
candidates_in(part) ==
    {k \in 1..Len(city_candidates) :
        Contains(str_lower(str_strip(part)), str_lower(city_candidates[k]))}
\* line 184: enumerate(reversed(parts)) visits index n first
ScannedFirstForward(hits) == CHOOSE i \in hits : \A j \in hits : i <= j
scanned_first(hits) == CHOOSE i \in hits : \A j \in hits : i >= j
\* line 182: the scan runs only for an address with a comma
scan_enabled(parts) == Len(parts) > 1
\* lines 208-213: the city taken from the other columns
fallback_city(provinsi, kotaKabupaten) ==
    IF kotaKabupaten # <<>> /\ str_strip(kotaKabupaten) # <<>>
    THEN str_strip(kotaKabupaten)
    ELSE IF provinsi # <<>> /\ str_strip(provinsi) # <<>>
         THEN str_strip(provinsi)
         ELSE <<>>
\* clean_address, lines 158-218: <<detail, city>>
clean_address(address, provinsi, kotaKabupaten) ==
    IF isna_text(address) \/ address = <<>> THEN <<<<>>, <<>>>>
    ELSE LET a == str_strip(address)
             parts == split_comma(a)
             hits == {i \in 1..Len(parts) :
                        ~is_country_token(parts[i]) /\ candidates_in(parts[i]) # {}}
         IN  IF is_bare_city(a) THEN <<<<>>, a>>
             ELSE IF scan_enabled(parts) /\ hits # {}
                  THEN LET i == scanned_first(hits)
                           k == CHOOSE c \in candidates_in(parts[i]) :
                                   \A d \in candidates_in(parts[i]) : c <= d
                           detail == strip_trailing_punct(
                                        str_strip(join_comma(SubSeq(parts, 1, i - 1))))
                       IN  <<strip_trailing_punct(detail), city_candidates[k]>>
                  ELSE <<strip_trailing_punct(a), fallback_city(provinsi, kotaKabupaten)>>

\* ---- bounded inputs of the text helpers ----
upper_char(c) ==
    IF \E i \in 1..26 : LowerLetters[i] = c
    THEN UpperLetters[CHOOSE i \in 1..26 : LowerLetters[i] = c]
    ELSE c
str_upper(s) == [i \in 1..Len(s) |-> upper_char(s[i])]
capitalized(s) == [i \in 1..Len(s) |-> IF i = 1 THEN upper_char(s[i]) ELSE s[i]]

Texts == SeqsUpTo({"a", "_", "#", " ", "\n"}, MaxText) \cup {NA}

\* provinsi cells: known and unknown names in three spellings, padded
ProvinceWords ==
    {<<"b", "a", "l", "i">>, <<"a", "c", "e", "h">>, <<"j", "a", "k", "a", "r", "t", "a">>, <<"j", "o", "g", "j", "a">>, <<"j", "o", "g", "j", "a", "k", "a", "r", "t", "a">>, <<"y", "o", "g", "y", "a", "k", "a", "r", "t", "a">>,
     <<"d", "k", "i", " ", "j", "a", "k", "a", "r", "t", "a">>, <<"p", "a", "p", "u", "a">>, <<>>}
Pads == SeqsUpTo({" ", "\t"}, MaxPad)
Provinces ==
    {l \o c \o r : l \in Pads, r \in Pads,
                   c \in UNION {{w, str_upper(w), capitalized(w)} : w \in ProvinceWords}}
    \cup {NA}

\* address cells: up to MaxParts comma-separated parts
Addresses ==
    {join_comma(ps) : ps \in (SeqsUpTo({<<"J", "l", " ", "A">>, <<" ", "K", "o", "t", "a", " ", "B", "a", "n", "d", "u", "n", "g">>, <<" ", "B", "a", "l", "i">>, <<" ", "I", "n", "d", "o", "n", "e", "s", "i", "a">>, <<" ", "i", "d">>, <<"x", ";">>, <<>>}, MaxParts) \ {<<>>})} \cup {NA}

\* normalize_kota, line 286: characters outside ASCII are dropped
IsAscii(c) == c \notin {"é"}
StartsWith(s, p) == Len(s) >= Len(p) /\ SubSeq(s, 1, Len(p)) = p
\* line 291: re.sub(r'^(Kota|Kabupaten|Kab\.|Kota\.)\s*', '', kota, flags=re.IGNORECASE);
\* the alternatives are tried in order and \s* also matches no whitespace
remove_prefix(s) ==
    LET l == str_lower(s)
        after(n) == SubSeq(s, n + 1, Len(s))
    IN  IF StartsWith(l, <<"k", "o", "t", "a">>) THEN lstrip(after(4))
        ELSE IF StartsWith(l, <<"k", "a", "b", "u", "p", "a", "t", "e", "n">>) THEN lstrip(after(9))
        ELSE IF StartsWith(l, <<"k", "a", "b", ".">>) THEN lstrip(after(4))
        ELSE s
\* lines 295-302, in the dict's order
kota_fixes ==
    <<<<<<"D", "a", "e", "r", "a", "h", " ", "K", "h", "u", "s", "u", "s", " ", "i", "b", "u", "k", "o", "t", "a", " ", "J", "a", "k", "a", "r", "t", "a">>, <<"J", "a", "k", "a", "r", "t", "a">>>>,
      <<<<"D", "a", "e", "r", "a", "h", " ", "K", "h", "u", "s", "u", "s", " ", "I", "b", "u", "k", "o", "t", "a", " ", "J", "a", "k", "a", "r", "t", "a">>, <<"J", "a", "k", "a", "r", "t", "a">>>>,
      <<<<"D", "K", "I", " ", "J", "a", "k", "a", "r", "t", "a">>, <<"J", "a", "k", "a", "r", "t", "a">>>>,
      <<<<"Y", "o", "g", "y", "a", "k", "a", "r", "t", "a">>, <<"Y", "o", "g", "y", "a", "k", "a", "r", "t", "a">>>>,
      <<<<"J", "o", "g", "j", "a">>, <<"Y", "o", "g", "y", "a", "k", "a", "r", "t", "a">>>>,
      <<<<"J", "o", "g", "j", "a", "k", "a", "r", "t", "a">>, <<"Y", "o", "g", "y", "a", "k", "a", "r", "t", "a">>>>>>
\* lines 304-307: the first entry whose lowercased key occurs in the
\* lowercased name replaces the whole name
apply_fixes(s) ==
    LET hits == {k \in 1..Len(kota_fixes) : Contains(str_lower(s), str_lower(kota_fixes[k][1]))}
    IN  IF hits = {} THEN s
        ELSE kota_fixes[CHOOSE k \in hits : \A h \in hits : k <= h][2]
\* normalize_kota, lines 279-313
normalize_kota(kota) ==
    IF isna_text(kota) \/ kota = <<>> THEN <<>>
    ELSE LET ascii == str_strip(collapse_spaces(SelectSeq(str_strip(kota), IsAscii)))
             fixed == apply_fixes(str_strip(remove_prefix(ascii)))
         IN  IF str_lower(fixed) \in {<<"s", "u", "l", "a", "w", "e", "s", "i">>, <<"s", "u", "m", "a", "t", "e", "r", "a">>}
             THEN <<>>
             ELSE fixed

\* lines 323-344: the cascade over the lowercased regency
kota_provinsi ==
    <<<<{<<"j", "a", "k", "a", "r", "t", "a">>}, <<"D", "K", "I", " ", "J", "a", "k", "a", "r", "t", "a">>>>,
      <<{<<"y", "o", "g", "y", "a", "k", "a", "r", "t", "a">>, <<"j", "o", "g", "j", "a">>}, <<"D", "a", "e", "r", "a", "h", " ", "I", "s", "t", "i", "m", "e", "w", "a", " ", "Y", "o", "g", "y", "a", "k", "a", "r", "t", "a">>>>,
      <<{<<"b", "a", "n", "d", "u", "n", "g">>}, <<"J", "a", "w", "a", " ", "B", "a", "r", "a", "t">>>>,
      <<{<<"s", "u", "r", "a", "b", "a", "y", "a">>, <<"m", "a", "l", "a", "n", "g">>, <<"b", "a", "t", "u">>}, <<"J", "a", "w", "a", " ", "T", "i", "m", "u", "r">>>>,
      <<{<<"s", "e", "m", "a", "r", "a", "n", "g">>, <<"s", "u", "r", "a", "k", "a", "r", "t", "a">>, <<"m", "a", "g", "e", "l", "a", "n", "g">>}, <<"J", "a", "w", "a", " ", "T", "e", "n", "g", "a", "h">>>>,
      <<{<<"d", "e", "n", "p", "a", "s", "a", "r">>, <<"b", "a", "d", "u", "n", "g">>, <<"g", "i", "a", "n", "y", "a", "r">>}, <<"B", "a", "l", "i">>>>,
      <<{<<"m", "a", "t", "a", "r", "a", "m">>, <<"l", "o", "m", "b", "o", "k">>}, <<"N", "u", "s", "a", " ", "T", "e", "n", "g", "g", "a", "r", "a", " ", "B", "a", "r", "a", "t">>>>,
      <<{<<"m", "a", "k", "a", "s", "s", "a", "r">>, <<"k", "e", "n", "d", "a", "r", "i">>}, <<"S", "u", "l", "a", "w", "e", "s", "i", " ", "S", "e", "l", "a", "t", "a", "n">>>>,
      <<{<<"s", "a", "m", "a", "r", "i", "n", "d", "a">>, <<"b", "a", "l", "i", "k", "p", "a", "p", "a", "n">>}, <<"K", "a", "l", "i", "m", "a", "n", "t", "a", "n", " ", "T", "i", "m", "u", "r">>>>,
      <<{<<"p", "a", "l", "e", "m", "b", "a", "n", "g">>}, <<"S", "u", "m", "a", "t", "e", "r", "a", " ", "S", "e", "l", "a", "t", "a", "n">>>>,
      <<{<<"m", "e", "d", "a", "n">>}, <<"S", "u", "m", "a", "t", "e", "r", "a", " ", "U", "t", "a", "r", "a">>>>>>
\* lines 349-360: the cascade over the lowercased address city
addr_provinsi ==
    <<<<{<<"j", "a", "k", "a", "r", "t", "a">>}, <<"D", "K", "I", " ", "J", "a", "k", "a", "r", "t", "a">>>>,
      <<{<<"y", "o", "g", "y", "a", "k", "a", "r", "t", "a">>, <<"j", "o", "g", "j", "a">>}, <<"D", "a", "e", "r", "a", "h", " ", "I", "s", "t", "i", "m", "e", "w", "a", " ", "Y", "o", "g", "y", "a", "k", "a", "r", "t", "a">>>>,
      <<{<<"j", "a", "w", "a", " ", "b", "a", "r", "a", "t">>, <<"b", "a", "n", "d", "u", "n", "g">>}, <<"J", "a", "w", "a", " ", "B", "a", "r", "a", "t">>>>,
      <<{<<"j", "a", "w", "a", " ", "t", "i", "m", "u", "r">>, <<"s", "u", "r", "a", "b", "a", "y", "a">>}, <<"J", "a", "w", "a", " ", "T", "i", "m", "u", "r">>>>,
      <<{<<"j", "a", "w", "a", " ", "t", "e", "n", "g", "a", "h">>, <<"s", "e", "m", "a", "r", "a", "n", "g">>}, <<"J", "a", "w", "a", " ", "T", "e", "n", "g", "a", "h">>>>,
      <<{<<"b", "a", "l", "i">>}, <<"B", "a", "l", "i">>>>>>
\* the province of the first branch of a cascade one of whose words occurs in
\* the text, or the current value when no branch matches
first_branch(cascade, text, current) ==
    LET hits == {k \in 1..Len(cascade) : \E w \in cascade[k][1] : Contains(text, w)}
    IN  IF hits = {} THEN current
        ELSE cascade[CHOOSE k \in hits : \A h \in hits : k <= h][2]
is_empty_cell(x) == isna_text(x) \/ x = <<>>
\* one iteration of the loop of lines 319-360; the value left in the frame's
\* provinsi cell. `row` is the copy made by iterrows, so the test of line 347
\* reads the province the row had before the regency branch wrote the frame.
fill_provinsi(provinsi, kota, addr_city) ==
    IF ~is_empty_cell(provinsi) THEN provinsi
    ELSE LET from_kota == IF ~is_empty_cell(kota)
                          THEN first_branch(kota_provinsi, str_lower(kota), provinsi)
                          ELSE provinsi
         IN  IF is_empty_cell(provinsi) /\ ~is_empty_cell(addr_city)
             THEN first_branch(addr_provinsi, str_lower(addr_city), from_kota)
             ELSE from_kota

\* optimized lines 145-146, parallel lines 117-120: the truth value of
\* dest['name'] and dest['latitude'] and dest['longitude']; a float is
\* falsy only when it is 0.0, NaN is truthy
required_fields(name, latitude, longitude) ==
    name # <<>> /\ latitude # 0 /\ longitude # 0

\* cells of one row at the backfill
\* cells of one row of the importers' table
\* process_destinations / normalize_destination: the fields the check reads
NoneRow == [name |-> NA, latitude |-> NaN, longitude |-> NaN]
normalize_destination(name, latitude, longitude) ==
    \* str(row.get('name', '')).strip(): a missing cell becomes the text 'nan'
    LET dest == [name |-> str_strip(IF isna_text(name) THEN <<"n", "a", "n">> ELSE name),
                 latitude |-> latitude, longitude |-> longitude]
    IN  IF required_fields(dest.name, dest.latitude, dest.longitude)
        THEN dest
        ELSE NoneRow

Calls ==
    {[fn |-> "clean_text", args |-> <<x>>] : x \in Texts}
    \cup {[fn |-> "normalize_provinsi", args |-> <<x>>] : x \in Provinces}
    \cup {[fn |-> "clean_address", args |-> <<a, p, k>>] :
             a \in Addresses, p \in {<<>>, <<"R", "i", "a", "u">>}, k \in {<<>>, <<"K", "a", "b", " ", "X">>}}
    \cup {[fn |-> "normalize_kota", args |-> <<x>>] : x \in {<<"K", "o", "t", "a", "b", "a", "r", "u">>,
                                                             <<"K", "o", "t", "a", " ", "B", "a", "t", "u">>,
                                                             <<"K", "A", "B", ".", " ", "B", "o", "g", "o", "r">>,
                                                             <<"k", "a", "b", "u", "p", "a", "t", "e", "n", " ", " ", "S", "l", "e", "m", "a", "n", " ">>,
                                                             <<"S", "u", "l", "a", "w", "e", "s", "i">>,
                                                             <<" ", "s", "u", "m", "a", "t", "e", "r", "a">>,
                                                             <<"J", "o", "g", "j", "a">>,
                                                             <<"K", "o", "t", "a", " ", "K", "o", "t", "a", " ", "B", "a", "t", "u">>,
                                                             <<"D", "K", "I", " ", "J", "a", "k", "a", "r", "t", "a">>,
                                                             <<"K", "o", "t", "a">>,
                                                             <<"K", "o", "t", "a", ".", "B", "a", "t", "u">>,
                                                             <<"K", "a", "b", " ", "T", "e", "g", "a", "l">>,
                                                             <<"S", "o", "l", "o", " ", "é">>,
                                                             <<" ">>,
                                                             <<"K", "o", "t", "a", " ", "S", "u", "l", "a", "w", "e", "s", "i">>,
                                                             <<"K", "a", "b", "u", "p", "a", "t", "e", "n">>,
                                                             <<>>}
                                                             \cup {NA}}
    \cup {[fn |-> "fill_provinsi", args |-> <<p, k, a>>] :
             p \in {<<>>, NA, <<"R", "i", "a", "u">>}, k \in {<<>>, NA, <<"B", "a", "n", "d", "u", "n", "g">>, <<"K", "o", "t", "a", " ", "M", "a", "l", "a", "n", "g">>, <<"T", "e", "g", "a", "l">>, <<"J", "a", "k", "a", "r", "t", "a", " ", "S", "e", "l", "a", "t", "a", "n">>}, a \in {<<>>, NA, <<"B", "a", "l", "i">>, <<"B", "a", "n", "d", "u", "n", "g">>, <<"S", "o", "l", "o">>, <<"J", "a", "w", "a", " ", "T", "i", "m", "u", "r">>}}
    \cup {[fn |-> "normalize_destination", args |-> <<x, lat, lng, 0>>] :
             x \in {<<>>, <<" ">>, <<"A">>, NA}, lat \in {NaN, -110000000, 0, 60000000, 70000000}, lng \in {NaN, 0, 950000000, 1410000000}}

\* lines 111-360: the cleaning passes over the frame; line 130 replaces the
\* name column by its cleaned values, row by row
CleanRows ==
    /\ mpc = "clean"
    /\ df_combined' = [i \in 1..Len(df_combined) |->
                          [df_combined[i] EXCEPT !.name = clean_text(@)]]
    /\ mpc' = "validate"
    /\ UNCHANGED <<df1, df2, df3, saved, call, ret, ivars>>

MergeNext ==
    \/ Combine
    \/ KeyColumns
    \/ CoordFilter
    \/ DropDuplicates
    \/ CleanRows
    \/ ValidateLatLong
    \/ SaveCsv

\* a cell of a row is about to be cleaned
TextInit ==
    /\ ImportIdle
    /\ df1 = <<>> /\ df2 = <<>> /\ df3 = <<>>
    /\ df_combined = <<>> /\ saved = <<>> /\ mpc = "off"
    /\ call \in Calls
    /\ ret = <<>>

\* lines 130 and 152-154: apply(clean_text)
ApplyCleanText ==
    /\ call.fn = "clean_text" /\ ret = <<>>
    /\ ret' = <<clean_text(call.args[1])>>
    /\ UNCHANGED <<df1, df2, df3, df_combined, saved, mpc, call, ivars>>

\* line 275: apply(normalize_provinsi)
ApplyNormalizeProvinsi ==
    /\ call.fn = "normalize_provinsi" /\ ret = <<>>
    /\ ret' = <<normalize_provinsi(call.args[1])>>
    /\ UNCHANGED <<df1, df2, df3, df_combined, saved, mpc, call, ivars>>

\* lines 221-226: apply(clean_address) per row
ApplyCleanAddress ==
    /\ call.fn = "clean_address" /\ ret = <<>>
    /\ ret' = clean_address(call.args[1], call.args[2], call.args[3])
    /\ UNCHANGED <<df1, df2, df3, df_combined, saved, mpc, call, ivars>>

\* line 315: apply(normalize_kota)
ApplyNormalizeKota ==
    /\ call.fn = "normalize_kota" /\ ret = <<>>
    /\ ret' = <<normalize_kota(call.args[1])>>
    /\ UNCHANGED <<df1, df2, df3, df_combined, saved, mpc, call, ivars>>

\* lines 319-360: one iteration of the province backfill
ApplyFillProvinsi ==
    /\ call.fn = "fill_provinsi" /\ ret = <<>>
    /\ ret' = <<fill_provinsi(call.args[1], call.args[2], call.args[3])>>
    /\ UNCHANGED <<df1, df2, df3, df_combined, saved, mpc, call, ivars>>

\* the importers' normalisation of one row
ApplyNormalizeDestination ==
    /\ call.fn = "normalize_destination" /\ ret = <<>>
    /\ ret' = <<normalize_destination(call.args[1], call.args[2], call.args[3])>>
    /\ UNCHANGED <<df1, df2, df3, df_combined, saved, mpc, call, ivars>>

TextNext ==
    \/ ApplyCleanText
    \/ ApplyNormalizeProvinsi
    \/ ApplyCleanAddress
    \/ ApplyNormalizeKota
    \/ ApplyFillProvinsi
    \/ ApplyNormalizeDestination

(***************************************************************************)
(* Specifications                                                          *)
(***************************************************************************)
ImportNext ==
    \/ LoadCsvData
    \/ SubmitBatch
    \/ StartWorker
    \/ WorkerAttempt
    \/ CollectResult
    \/ ReturnBatch
    \/ UploadDocument
    \/ BuildFaissIndex
    \/ SaveFaissIndex
    \/ QueryEmbedding
    \/ SearchFaiss
    \/ LoadData
    \/ UploadChunkOptimized
    \/ BuildBatchOptimized
    \/ FinishBuildOptimized
    \/ SubmitParallel
    \/ StartWorkerParallel
    \/ WorkerCallParallel
    \/ CollectParallel
    \/ ReturnParallel
    \/ UploadChunkParallel
    \/ BuildFaissIndexParallel
    \/ ImportRow
    \/ CommitRemaining
    \/ PrepareUmkm
    \/ CommitUmkm
    \/ VerifyUmkm

SpecMerge == MergeInit /\ [][MergeNext]_vars
SpecImport == ImportInit /\ [][ImportNext]_vars
SpecText == TextInit /\ [][TextNext]_vars

Init == MergeInit \/ ImportInit \/ TextInit
Next == MergeNext \/ ImportNext \/ TextNext
Spec == Init /\ [][Next]_vars

(***************************************************************************)
(* Properties of merge_datasets.py (SpecMerge)                             *)
(***************************************************************************)
\* the concatenation of the three normalised sources (source 1 first)
Concatenation == concat(normalized(df1, 1), normalized(df2, 2), normalized(df3, 3))
ValidCoordinates(row) ==
    /\ row.latitude # NaN /\ row.longitude # NaN
    /\ LAT_MIN <= row.latitude /\ row.latitude <= LAT_MAX
    /\ LNG_MIN <= row.longitude /\ row.longitude <= LNG_MAX
DedupKey(row) ==
    <<str_strip(str_lower(row.name)), round3(row.latitude), round3(row.longitude)>>
ValidPositions == {i \in 1..Len(Concatenation) : ValidCoordinates(Concatenation[i])}
\* positions of the valid rows that no earlier valid row shares the key with
EarliestPerKey ==
    {i \in ValidPositions :
        \A j \in ValidPositions :
            j < i => DedupKey(Concatenation[j]) # DedupKey(Concatenation[i])}
IndexLabels(df) == {df[k].index : k \in 1..Len(df)}

\* C2: among the rows of the concatenation with valid coordinates, for every
\* dedup key exactly the earliest row survives the merge and every later row
\* with that key is dropped.
C2_EarliestPerKeySurvives ==
    mpc = "done" =>
        /\ IndexLabels(saved) = {Concatenation[i].index : i \in EarliestPerKey}
        /\ Cardinality(IndexLabels(saved)) = Len(saved)

\* a merge in which a later valid row shared the key of an earlier one
C2_Witness ==
    /\ mpc = "done"
    /\ \E i \in ValidPositions : \E j \in ValidPositions :
         /\ i < j
         /\ DedupKey(Concatenation[i]) = DedupKey(Concatenation[j])
         /\ Concatenation[i].name # Concatenation[j].name
         /\ Concatenation[i].index \in IndexLabels(saved)
         /\ Concatenation[j].index \notin IndexLabels(saved)

OnBoundary(row) ==
    \/ row.latitude \in {LAT_MIN, LAT_MAX}
    \/ row.longitude \in {LNG_MIN, LNG_MAX}

\* C3: no row of the merged output has a missing or out-of-bounds coordinate,
\* and the coordinate filter keeps the rows lying exactly on a boundary.
C3_OutputWithinBounds ==
    /\ mpc = "done" => \A k \in 1..Len(saved) : ValidCoordinates(saved[k])
    /\ mpc = "dedup" =>
          \A i \in ValidPositions :
              OnBoundary(Concatenation[i])
                  => Concatenation[i].index \in IndexLabels(df_combined)
    /\ mpc = "done" =>
          \A i \in EarliestPerKey :
              OnBoundary(Concatenation[i])
                  => Concatenation[i].index \in IndexLabels(saved)

\* a merge that dropped an out-of-bounds row and a row with a missing
\* coordinate and kept a row on the boundary
C3_Witness ==
    /\ mpc = "done"
    /\ \E i \in 1..Len(Concatenation) :
         /\ Concatenation[i].latitude # NaN
         /\ Concatenation[i].latitude > LAT_MAX
         /\ Concatenation[i].index \notin IndexLabels(saved)
    /\ \E k \in 1..Len(saved) :
         saved[k].latitude = LAT_MAX /\ saved[k].longitude = LNG_MIN

(***************************************************************************)
(* Properties of the import scripts (SpecImport)                           *)
(***************************************************************************)
AfterBuild == pc \in {"save", "query", "search", "done"}
AfterEmbedding == pc \in {"upload", "build", "save", "query", "search", "done"}

\* C1: in import-data.py every index entry pairs a store-assigned id with the
\* name and embedding of the very record written to the store under that id.
C1_EntryIdNamesItsRecord ==
    (script = IMPORT_DATA /\ AfterBuild) =>
        \A i \in 1..Len(index_mapping) :
            \E d \in store :
                /\ d.id = index_mapping[i].id
                /\ d.name = index_mapping[i].name
                /\ faiss_index[i] = normalize_L2(d.embedding)

\* C4: the embedding batch returns one result per input text, element i being
\* the embedding computed for text i, whatever the order of completion.
C4_BatchKeepsInputOrder ==
    script \in {IMPORT_DATA, PARALLEL} =>
        /\ pc = "embed" =>
              \A i \in Collected :
                  /\ embeddings[i] \in {ServiceVector(Text(i)), ZeroVector}
                  /\ tasks[i].result # RaisedVec => embeddings[i] = tasks[i].result
        /\ AfterEmbedding =>
              /\ Len(embeddings) = N
              /\ \A i \in 1..N : embeddings[i] \in {ServiceVector(Text(i)), ZeroVector}

\* a later text's result was collected before an earlier text's
C4_Witness ==
    /\ script = IMPORT_DATA /\ pc = "embed"
    /\ \E i \in 1..Len(tasks) : \E j \in Collected :
         /\ i < j /\ i \notin Collected
         /\ embeddings[j] = ServiceVector(Text(j))

\* the calls of a single-item request, whether it returned, and what
RequestWithinBound(calls, returned, value, text) ==
    /\ Len(calls) <= 3
    /\ \A k \in 1..(Len(calls) - 1) : ~calls[k]
    /\ returned =>
          /\ Len(calls) >= 1
          /\ IF calls[Len(calls)] THEN value = ServiceVector(text)
             ELSE Len(calls) = 3 /\ value = ZeroVector
    /\ ~returned => Len(calls) < 3 /\ \A k \in 1..Len(calls) : ~calls[k]

\* C5: a single-item embedding request of import-data.py makes at most 3 calls,
\* each only after the previous one failed, returns the vector of the first
\* successful call, and after 3 failures returns the zero vector.
C5_RetryBoundedToThree ==
    script = IMPORT_DATA =>
        /\ \A i \in 1..Len(tasks) :
              IF tasks[i].none
              THEN Len(tasks[i].calls) <= 3 /\ \A k \in 1..(Len(tasks[i].calls) - 1) : ~tasks[i].calls[k]
              ELSE RequestWithinBound(tasks[i].calls,
                                      tasks[i].st \in {"finished", "collected"},
                                      tasks[i].result, Text(i))
        /\ Len(emb_calls) <= 3
        /\ \A k \in 1..(Len(emb_calls) - 1) : ~emb_calls[k]
        /\ pc = "query" => (Len(emb_calls) < 3 /\ \A k \in 1..Len(emb_calls) : ~emb_calls[k])
        /\ pc \in {"search", "done"} =>
              (emb_calls # <<>> /\ (emb_calls[Len(emb_calls)] \/ Len(emb_calls) = 3))

\* a request that failed three times and returned the zero vector, and one
\* that succeeded on its second call
C5_Witness ==
    /\ script = IMPORT_DATA
    /\ \E i \in 1..Len(tasks) :
         /\ tasks[i].st = "finished"
         /\ tasks[i].calls = <<FALSE, FALSE, FALSE>>
         /\ tasks[i].result = ZeroVector
    /\ \E j \in 1..Len(tasks) :
         /\ tasks[j].calls = <<FALSE, TRUE>>
         /\ tasks[j].result = ServiceVector(Text(j))

\* C6: after build_faiss_index of each variant the mapping has one entry per
\* vector of the index, and entry i describes the destination whose vector is
\* at position i.
C6_MappingParallelsIndex ==
    (script \in {IMPORT_DATA, OPTIMIZED, PARALLEL} /\ AfterBuild) =>
        /\ Len(index_mapping) = Len(faiss_index)
        /\ \A i \in 1..Len(index_mapping) :
              /\ faiss_index[i].dim = EMBEDDING_DIMENSION
              /\ faiss_index[i].of \in {0, index_mapping[i].name}

\* the optimized build after a failed first embedding batch and a successful
\* later one: position 0 describes a destination that is not the first
C6_Witness ==
    /\ script = OPTIMIZED /\ AfterBuild
    /\ Len(faiss_index) >= 1
    /\ index_mapping[1].id > 0
    /\ faiss_index[1].of = index_mapping[1].name

NamesOf(writes) == [k \in 1..Len(writes) |-> writes[k].name]
FailedCommits == {k \in 1..Len(commit_log) : ~commit_log[k].ok}
RunEnded == exit_code # -1

\* C7: when the commit of one chunk raises, the earlier chunks stay stored, the
\* failed chunk is skipped, every later chunk is still committed and the run
\* does not exit non-zero.
C7_FailedChunkIsSkipped ==
    (script \in {OPTIMIZED, UMKM} /\ RunEnded /\ Cardinality(FailedCommits) = 1) =>
        /\ exit_code = 0
        /\ {d.name : d \in store} =
              {destinations[i].name : i \in 1..N}
                 \ UNION {Range(NamesOf(commit_log[k].writes)) : k \in FailedCommits}

\* the records handed to the bulk load, in input order
LoadedNames ==
    LET keep == [i \in 1..N |-> destinations[i].provinsi # ""]
    IN  NamesOf(SelectIdx(destinations, keep, 1))
UploadFinished ==
    \/ script \in {OPTIMIZED, PARALLEL} /\ pc \in {"build", "save", "done"}
    \/ script = SETUP /\ pc = "done"
CeilDiv(a, b) == (a + b - 1) \div b

\* C8: with no failing commit, N records are committed in ceil(N/S) chunks that
\* are the consecutive slices of S records of the input, the last one holding
\* the remainder.
C8_ChunksAreConsecutiveSlices ==
    (UploadFinished /\ FailedCommits = {}) =>
        LET S == ChunkSize(script)
            recs == LoadedNames
        IN  /\ Len(commit_log) = CeilDiv(Len(recs), S)
            /\ \A k \in 1..Len(commit_log) :
                  NamesOf(commit_log[k].writes) =
                      SubSeq(recs, (k - 1) * S + 1, Min(k * S, Len(recs)))

\* a load of more than one chunk whose last chunk is a proper remainder
C8_Witness ==
    /\ UploadFinished /\ FailedCommits = {}
    /\ Len(commit_log) >= 2
    /\ Len(commit_log[1].writes) = ChunkSize(script)
    /\ Len(commit_log[Len(commit_log)].writes) < ChunkSize(script)

\* the states in which the script has reported its count of imported records
CountReported ==
    \/ script = SETUP /\ exit_code = 0
    \/ script = UMKM /\ pc = "done"

\* C9: the reported number of imported records equals the number of records
\* whose write was committed, for every pattern of commit failures.
C9_CountIsCommittedRecords ==
    CountReported => counter = Cardinality(store)

\* a load that reported after one chunk failed and another was committed
C9_Witness ==
    /\ CountReported
    /\ FailedCommits # {}
    /\ store # {}
    /\ \E k \in FailedCommits : \E w \in Range(commit_log[k].writes) : w \notin store

RECURSIVE InRangeEntries(_, _, _)
InRangeEntries(indices, mapping, i) ==
    IF i > Len(indices) THEN <<>>
    ELSE (IF 0 <= indices[i] /\ indices[i] < Len(mapping)
          THEN <<mapping[indices[i] + 1]>> ELSE <<>>)
         \o InRangeEntries(indices, mapping, i + 1)

\* C10: search_faiss returns at most k results, one for each returned position
\* i with 0 <= i < len(mapping); every other position, the -1 filler included,
\* produces no result.
C10_OnlyInRangePositions ==
    (script = IMPORT_DATA /\ pc = "done") =>
        /\ Len(search_out.results) <= search_out.limit
        /\ search_out.results =
              InRangeEntries(search_out.indices, index_mapping, 1)


(***************************************************************************)
(* Properties of the text helpers (SpecText)                               *)
(***************************************************************************)
Returned(fn) == call.fn = fn /\ ret # <<>>

\* C11: clean_text is idempotent: cleaning a cleaned text changes nothing,
\* also when a removed character stood between two whitespace characters.
C11_CleanTextIdempotent ==
    Returned("clean_text") => clean_text(ret[1]) = ret[1]

IsAlphanumeric(c) ==
    (\E i \in 1..26 : c = UpperLetters[i] \/ c = LowerLetters[i]) \/ c \in Digits
\* C12: every character of clean_text's result is alphanumeric, whitespace or
\* one of . , ; : ( ) - / (so never an underscore), and a missing input gives
\* the empty string.
C12_OnlyAllowedCharacters ==
    Returned("clean_text") =>
        /\ \A i \in 1..Len(ret[1]) :
              \/ IsAlphanumeric(ret[1][i])
              \/ ret[1][i] \in {" ", "\t", "\n", "\r"}
              \/ ret[1][i] \in {".", ",", ";", ":", "(", ")", "-", "/"}
        /\ call.args[1] = NA => ret[1] = <<>>

AliasKeys == {e[1] : e \in provinsi_mapping}
CanonicalOf(key) == (CHOOSE e \in provinsi_mapping : e[1] = key)[2]
\* C13: a province whose trimmed, lowercased form is a key of the alias table
\* gives the table's value whatever its case and padding; any other non-empty
\* string comes back trimmed only; missing or empty input gives "".
C13_ProvinceLookup ==
    Returned("normalize_provinsi") =>
        LET raw == call.args[1]
            key == str_lower(str_strip(raw))
        IN  IF raw = NA \/ raw = <<>> THEN ret[1] = <<>>
            ELSE IF key \in AliasKeys THEN ret[1] = CanonicalOf(key)
            ELSE ret[1] = str_strip(raw)

\* a padded, not all-lowercase spelling of a table key was mapped
C13_Witness ==
    /\ Returned("normalize_provinsi")
    /\ call.args[1] # NA
    /\ str_strip(call.args[1]) # call.args[1]
    /\ str_lower(call.args[1]) # call.args[1]
    /\ str_lower(str_strip(call.args[1])) \in AliasKeys
    /\ ret[1] = <<"D", "K", "I", " ", "J", "a", "k", "a", "r", "t", "a">>

\* C14: "jakarta" gives "DKI Jakarta"; "jogja" and "jogjakarta" both give
\* "Daerah Istimewa Yogyakarta".
C14_JakartaAndJogja ==
    Returned("normalize_provinsi") =>
        /\ call.args[1] = <<"j", "a", "k", "a", "r", "t", "a">> => ret[1] = <<"D", "K", "I", " ", "J", "a", "k", "a", "r", "t", "a">>
        /\ call.args[1] \in {<<"j", "o", "g", "j", "a">>, <<"j", "o", "g", "j", "a", "k", "a", "r", "t", "a">>} =>
              ret[1] = <<"D", "a", "e", "r", "a", "h", " ", "I", "s", "t", "i", "m", "e", "w", "a", " ", "Y", "o", "g", "y", "a", "k", "a", "r", "t", "a">>

KnownNames == {city_candidates[k] : k \in 1..Len(city_candidates)}
NamesIn(part) == {n \in KnownNames : Contains(str_lower(part), str_lower(n))}
CountryToken(part) ==
    str_lower(str_strip(part)) \in {<<"i", "n", "d", "o", "n", "e", "s", "i", "a">>, <<"i", "d">>}
\* the parts of an address that name a known city or province
NamingParts(parts) ==
    {i \in 1..Len(parts) : ~CountryToken(parts[i]) /\ NamesIn(parts[i]) # {}}
\* detail is `full` without trailing commas, semicolons and blanks, at least
\* one trailing comma or semicolon being removed when there is one
TrailingPunctRemoved(full, detail) ==
    LET f == str_strip(full)
    IN  /\ Len(detail) <= Len(f)
        /\ SubSeq(f, 1, Len(detail)) = detail
        /\ \A j \in (Len(detail) + 1)..Len(f) : f[j] \in {",", ";", " ", "\t"}
        /\ (f # <<>> /\ f[Len(f)] \in {",", ";"}) => detail # f

\* C17: for an address of two or more comma-separated parts, scanned from the
\* last part to the first with "Indonesia"/"ID" parts ignored, the first
\* scanned part containing a known name gives the city (that name) and the
\* detail is the comma-join of the parts before it, trailing comma or
\* semicolon removed.
C17_CityFromLastNamingPart ==
    (Returned("clean_address") /\ call.args[1] # NA) =>
        LET parts == split_comma(str_strip(call.args[1]))
            named == NamingParts(parts)
        IN  (Len(parts) >= 2 /\ named # {}) =>
               LET i == CHOOSE n \in named : \A m \in named : n >= m
               IN  /\ ret[2] \in NamesIn(parts[i])
                   /\ TrailingPunctRemoved(join_comma(SubSeq(parts, 1, i - 1)), ret[1])

\* a country part was skipped and, of two naming parts, the later one gave
\* the city
C17_Witness ==
    /\ Returned("clean_address") /\ call.args[1] # NA
    /\ LET parts == split_comma(str_strip(call.args[1]))
       IN  /\ Len(parts) = 3
           /\ CountryToken(parts[3])
           /\ NamingParts(parts) = {1, 2}
           /\ NamesIn(parts[1]) # NamesIn(parts[2])
           /\ ret[2] \in NamesIn(parts[2])

\* C18: for a non-empty address that is not a bare city/province name, with
\* or without commas, the city is the fallback (regency if non-empty, else
\* province) exactly when no part other than an "Indonesia"/"ID" part contains
\* a known name; when some part contains one, the city is that name.
C18_FallbackOnlyWithoutName ==
    (Returned("clean_address") /\ call.args[1] # NA
        /\ str_strip(call.args[1]) # <<>>
        /\ ~is_bare_city(str_strip(call.args[1]))) =>
        LET parts == split_comma(str_strip(call.args[1]))
            named == NamingParts(parts)
            fallback == IF str_strip(call.args[3]) # <<>>
                        THEN str_strip(call.args[3]) ELSE str_strip(call.args[2])
        IN  /\ named = {} => ret[2] = fallback
            /\ named # {} => \E i \in named : ret[2] \in NamesIn(parts[i])


(***************************************************************************)
(* Further properties of the import scripts (SpecImport)                   *)
(***************************************************************************)
IsBlank(text) == \A i \in 1..Len(text) : text[i] \in {" ", "\t", "\n", "\r"}

\* C15: in every import variant an embedding request whose text is missing,
\* empty or only whitespace yields the zero vector and makes no call to the
\* embedding service.
C15_BlankTextSkipsService ==
    /\ (script = IMPORT_DATA /\ pc \in {"search", "done"} /\ IsBlank(query)) =>
          emb_calls = <<>>
    /\ (script = PARALLEL /\ pc = "embed") =>
          \A i \in Finished \cup Collected :
             IsBlank(destinations[i].descriptionClean) =>
                tasks[i].calls = <<>> /\ tasks[i].result = ZeroVector
    /\ (script = OPTIMIZED /\ pc = "build") =>
          \A i \in 1..Len(index_mapping) :
             IsBlank(destinations[index_mapping[i].id + 1].descriptionClean) =>
                embeddings[i] = ZeroVector

\* a required column (name, latitude, longitude, description) none of whose
\* spellings is in the table
LacksRequiredColumn ==
    \E c \in {"Place_Name", "Latitude", "Longitude", "Description"} :
       \A i \in 1..Len(column_mapping[c]) : column_mapping[c][i] \notin csv_columns

\* C16: when the input table has none of the spellings of a required column,
\* the import run ends with a non-zero exit before any embedding-service call,
\* any document write and any index or mapping write.
C16_MissingColumnIsFatal ==
    (script = IMPORT_DATA /\ LacksRequiredColumn) =>
        /\ pc \in {"start", "fatal"}
        /\ pc = "fatal" => exit_code = 1
        /\ exit_code # 0
        /\ tasks = <<>> /\ emb_calls = <<>> /\ embeddings = <<>>
        /\ store = {} /\ commit_log = <<>> /\ document_ids = <<>>
        /\ faiss_index = <<>> /\ index_mapping = <<>>

C16_Witness ==
    /\ script = IMPORT_DATA /\ LacksRequiredColumn
    /\ pc = "fatal" /\ exit_code = 1

\* C19: in every import variant each vector is L2-normalized before it is
\* added to the index: the index never holds a vector that was not normalized.
C19_IndexVectorsNormalized ==
    script \in {IMPORT_DATA, OPTIMIZED, PARALLEL} =>
        \A i \in 1..Len(faiss_index) : faiss_index[i].norm

\* C20: every destination document written by the import pipeline carries an
\* embedding of the configured dimension; a record without a computed
\* embedding carries the zero vector, never a missing field or a null.
C20_DocumentsCarryEmbedding ==
    script \in {IMPORT_DATA, OPTIMIZED, PARALLEL} =>
        \A d \in store : d.embedding.dim = EMBEDDING_DIMENSION


\* C25: in every batched load, also when a commit raises, no batch handed to
\* commit holds more writes than the chunk size, and no record is added to a
\* batch whose commit has already failed.
C25_BatchWithinChunkSize ==
    script = SETUP =>
        /\ \A k \in 1..Len(commit_log) :
              Len(commit_log[k].writes) <= ChunkSize(script)
        /\ \A k \in 1..(Len(commit_log) - 1) :
              ~commit_log[k].ok =>
                 Len(commit_log[k + 1].writes) <= Len(commit_log[k].writes)

PoolCap(s) == IF s = PARALLEL THEN 4 ELSE 10
\* C30: for every CPU count of 1 or more the embedding pool has at least one
\* and at most cap(variant) workers (10 in import-data.py, 4 in
\* import-data-parallel.py), and never more embedding calls are in flight
\* than the pool size.
C30_PoolSizeWithinCap ==
    script \in {IMPORT_DATA, PARALLEL} =>
        /\ pc # "start" => PoolSize(script, cpu) >= 1
        /\ PoolSize(script, cpu) <= PoolCap(script)
        /\ Cardinality(Running) <= PoolSize(script, cpu)


\* C22: load_csv_data picks, for each canonical field, the first spelling
\* present in the table, and the record normalizer then reads that column:
\* every normalized destination carries the row's own name, coordinates and
\* description, not the defaults.
C22_NormalizerReadsFoundColumns ==
    (script = IMPORT_DATA /\ pc \notin {"start", "loaded", "fatal"}) =>
        \A i \in 1..N :
           destinations[i].read = {"Place_Name", "Latitude", "Longitude", "Description"}

\* C26: generate_embeddings_batch returns normally for every input list, also
\* one with a None item: when the worker of item i raises, slot i holds the
\* zero vector, no slot stays unset and the other results are unaffected.
C26_RaisedWorkerGivesZeroVector ==
    /\ (script = IMPORT_DATA /\ pc = "embed") =>
          \A i \in Collected :
             embeddings[i] = (IF tasks[i].result.dim = -1 THEN ZeroVector
                              ELSE tasks[i].result)
    /\ (script = IMPORT_DATA /\ pc \in {"upload", "build", "save", "query", "search", "done"}) =>
          /\ Len(embeddings) = N
          /\ \A i \in 1..N : embeddings[i].dim = EMBEDDING_DIMENSION

\* the worker of one item raised and its slot was written, next to a slot
\* holding another item's service vector
C26_Witness ==
    /\ script = IMPORT_DATA /\ pc = "embed"
    /\ \E i \in Collected : \E j \in Collected :
          /\ tasks[i].none /\ tasks[i].result.dim = -1
          /\ embeddings[i] = ZeroVector
          /\ embeddings[j] = ServiceVector(Text(j))


\* C23: the province backfill changes a row's province only when it is empty
\* after normalization, and consults the address city only when the regency
\* produced no province: a province inferred from the regency is never
\* replaced by one inferred from the address city.
C23_RegencyProvinceKept ==
    Returned("fill_provinsi") =>
        LET provinsi == call.args[1]
            from_kota == IF ~is_empty_cell(call.args[2])
                         THEN first_branch(kota_provinsi, str_lower(call.args[2]), provinsi)
                         ELSE provinsi
        IN  /\ ~is_empty_cell(provinsi) => ret[1] = provinsi
            /\ (is_empty_cell(provinsi) /\ ~is_empty_cell(from_kota)) => ret[1] = from_kota

\* C28: normalize_kota removes at most one leading prefix word (Kota,
\* Kabupaten, Kab. in any case) together with the whitespace after it: a name
\* that merely starts with the letters of a prefix, like Kotabaru, keeps all
\* its letters, and a bare Sulawesi or Sumatera gives the empty string.
C28_PrefixWordOnly ==
    Returned("normalize_kota") =>
        /\ call.args[1] = <<"K", "o", "t", "a", "b", "a", "r", "u">> => ret[1] = <<"K", "o", "t", "a", "b", "a", "r", "u">>
        /\ call.args[1] = <<"K", "o", "t", "a", " ", "K", "o", "t", "a", " ", "B", "a", "t", "u">> => ret[1] = <<"K", "o", "t", "a", " ", "B", "a", "t", "u">>
        /\ (~isna_text(call.args[1]) /\ str_lower(str_strip(call.args[1])) \in {<<"s", "u", "l", "a", "w", "e", "s", "i">>, <<"s", "u", "m", "a", "t", "e", "r", "a">>})
              => ret[1] = <<>>

InsideBox(latitude, longitude) ==
    /\ latitude >= LAT_MIN /\ latitude <= LAT_MAX
    /\ longitude >= LNG_MIN /\ longitude <= LNG_MAX

\* C29: the importers' required-field check keeps every row that has a
\* non-empty name and numeric coordinates inside the bounding box, also one
\* whose latitude or longitude is exactly 0; only rows that lack a name or a
\* coordinate are skipped.
C29_ZeroCoordinateKept ==
    Returned("normalize_destination") =>
        LET name == call.args[1]
            latitude == call.args[2]
            longitude == call.args[3]
        IN  /\ (~isna_text(name) /\ str_strip(name) # <<>> /\ notna(latitude) /\ notna(longitude)
                  /\ InsideBox(latitude, longitude))
               => ret[1] # NoneRow
            /\ ret[1] = NoneRow
               => (isna_text(name) \/ str_strip(name) = <<>> \/ isna(latitude) \/ isna(longitude))


IndexSeq(df) == [k \in 1..Len(df) |-> df[k].index]

\* C21: the rows of the merged output are exactly the rows that survived the
\* coordinate filter and the deduplication, in the order of the
\* concatenation: the cleaning passes drop, add and reorder nothing.
C21_CleaningKeepsRows ==
    /\ mpc \in {"clean", "validate", "save"} =>
          IndexSeq(df_combined) =
              IndexSeq(drop_duplicates(coord_filter(with_key_columns(Concatenation))))
    /\ mpc = "done" =>
          IndexSeq(saved) =
              IndexSeq(drop_duplicates(coord_filter(with_key_columns(Concatenation))))

\* a merge that saved two rows, one of them on the boundary of the box and
\* one whose name the cleaning changed
C21_Witness ==
    /\ mpc = "done" /\ Len(saved) = 2
    /\ \E k \in 1..2 : OnBoundary(saved[k])
    /\ \E k \in 1..2 : saved[k].name # Concatenation[saved[k].index + 1].name

\* C24: rows with invalid coordinates are removed before the deduplication:
\* an out-of-bounds row that precedes an in-bounds row with the same key
\* never causes the in-bounds row to be dropped.
C24_InvalidRowNeverShadows ==
    mpc = "done" =>
        \A j \in EarliestPerKey :
            (\E i \in 1..(j - 1) :
                /\ i \notin ValidPositions
                /\ DedupKey(Concatenation[i]) = DedupKey(Concatenation[j]))
            => Concatenation[j].index \in IndexLabels(saved)

\* an out-of-bounds row came first, the in-bounds row with its key was saved
C24_Witness ==
    /\ mpc = "done"
    /\ \E j \in ValidPositions : \E i \in 1..(j - 1) :
          /\ i \notin ValidPositions
          /\ notna(Concatenation[i].latitude) /\ notna(Concatenation[i].longitude)
          /\ DedupKey(Concatenation[i]) = DedupKey(Concatenation[j])
          /\ Concatenation[j].index \in IndexLabels(saved)

\* the dedup key computed from the fields of an output row
OutputKey(row) ==
    <<str_strip(str_lower(row.name)), round3(row.latitude), round3(row.longitude)>>

\* C27: in the final output no two rows have the same dedup key computed from
\* the output fields: the cleaning after the deduplication never makes two
\* rows collide.
C27_OutputKeysDistinct ==
    mpc = "done" =>
        \A i \in 1..Len(saved) : \A j \in 1..Len(saved) :
            i # j => OutputKey(saved[i]) # OutputKey(saved[j])

=============================================================================
